---- MODULE Spec2Model ----
(***************************************************************************)
(* Model of the Claude form-assistant content script (src/content.js).     *)
(* The file holds two variants of the script: the "full" one (lines 1-799, *)
(* with page-context capture, delayed insertion and the extra focus        *)
(* heuristics) and the "simple" one (lines 800-1433).  `variant` selects   *)
(* which one runs on the page.                                             *)
(*                                                                         *)
(* Every action is one run of a handler between two suspension points of   *)
(* the JavaScript event loop (an await, a timer, a user or page event).    *)
(***************************************************************************)
EXTENDS Integers, Sequences, FiniteSets, TLC

\* ------------------------------------------------------------------ bounds
\* Number of trigger clicks that may start a request.
MaxClicks == 2
\* Number of clicks that take the "open the cached conversation" shortcut.
MaxOpens == 1
\* Number of wrapper elements between a field and document.body.
MaxDepth == 1
\* Number of preceding siblings of a field.
MaxSib == 1
\* Number of mousedown timers that may be pending at once.
MaxMousedown == 1
\* Number of blur timers told apart while pending; further ones merge with
\* the latest.
MaxBlur == 1
\* Clicks on the buttons airtable-handler.js puts into the cells.
MaxAir == 2
\* Characters in the textarea of the question modal.
MaxTyped == 3
\* Frames of handleElementFocus the call stack takes before the engine
\* throws a RangeError.
MaxStack == 4
\* fetchProjects calls of the popup that may be under way at once.
MaxFetch == 2
\* Mutation records that may be queued for the observer of the Airtable
\* handler at once.
MaxRecords == 3

\* ------------------------------------------------------------------ text
\* A text is a sequence of characters; SP is a blank.
SP == " "

\* null / undefined, for an element or a URL
Null == "null"

\* null, or "no such node", where a text is expected
NoText == <<"null">>

\* A line break
LF == "\n"

\* The white space String.prototype.trim removes
WhiteSpace == {SP, LF}

RECURSIVE TrimLeft(_)
TrimLeft(s) == IF s # <<>> /\ Head(s) \in WhiteSpace THEN TrimLeft(Tail(s)) ELSE s

RECURSIVE TrimRight(_)
TrimRight(s) ==
    IF s # <<>> /\ s[Len(s)] \in WhiteSpace
    THEN TrimRight(SubSeq(s, 1, Len(s) - 1)) ELSE s

\* String.prototype.trim
Trim(s) == TrimRight(TrimLeft(s))

\* JavaScript truthiness of a string-or-null value
Truthy(s) == s # NoText /\ s # <<>>

\* The texts a DOM source written with letter c may carry: empty, blank
\* only, and a word with a leading blank (so that trimming is observable).
Texts(c) == {<<>>, <<SP>>, <<SP, c>>}

\* ------------------------------------------------- the Question Inferrer
\* A field as detectFormQuestion sees it:
\*   hasId         element.id is non-empty
\*   labelFor      textContent of document.querySelector('label[for=id]'), or NoText
\*   placeholder   element.placeholder
\*   ariaLabel     element.getAttribute('aria-label'), or NoText
\*   ancestors     the parentElement chain, nearest first, ending with body, html;
\*                 label is the textContent of the first label/heading under that
\*                 ancestor (parent.querySelector), or NoText
\*   prevSiblings  textContent of the previousElementSibling chain, nearest first
\*   editable      getAttribute('contenteditable') === 'true'
\*   heading       textContent of the first heading/prompt under
\*                 element.closest('div, section, article'), or NoText

\* lines 569-574: the label whose for attribute is the field's id
labelForStep(element) ==
    IF element.hasId /\ element.labelFor # NoText /\ Trim(element.labelFor) # <<>>
    THEN Trim(element.labelFor)
    ELSE <<>>

\* Mutant: the placeholder is taken even when a label text was found.
placeholderStepAlways(element, question) ==
    IF Truthy(element.placeholder) THEN element.placeholder ELSE question

\* lines 577-579: placeholder, untrimmed
placeholderStep(element, question) ==
    IF ~Truthy(question) /\ Truthy(element.placeholder)
    THEN element.placeholder
    ELSE question

\* lines 582-584: aria-label, untrimmed
ariaLabelStep(element, question) ==
    IF ~Truthy(question) /\ Truthy(element.ariaLabel)
    THEN element.ariaLabel
    ELSE question

\* lines 589-599: the loop over parentElement; i is the position of `parent`
RECURSIVE ancestorWalk(_, _)
ancestorWalk(anc, i) ==
    IF i > Len(anc) THEN <<>>
    ELSE IF anc[i].label # NoText /\ Trim(anc[i].label) # <<>>
         THEN Trim(anc[i].label)
         ELSE IF i + 1 <= Len(anc) /\ anc[i + 1].isBody
              THEN <<>>
              ELSE ancestorWalk(anc, i + 1)

ancestorStep(element, question) ==
    IF ~Truthy(question) THEN ancestorWalk(element.ancestors, 1) ELSE question

\* lines 589-599: the positions of the ancestors the loop calls
\* parent.querySelector on
RECURSIVE ancestorsVisited(_, _)
ancestorsVisited(anc, i) ==
    IF i > Len(anc) THEN {}
    ELSE {i} \cup
         IF anc[i].label # NoText /\ Trim(anc[i].label) # <<>> THEN {}
         ELSE IF i + 1 <= Len(anc) /\ anc[i + 1].isBody THEN {}
         ELSE ancestorsVisited(anc, i + 1)

\* lines 587-589: the loop runs only while no question was found
ancestorsSearched(element) ==
    IF ~Truthy(ariaLabelStep(element, placeholderStep(element, labelForStep(element))))
    THEN ancestorsVisited(element.ancestors, 1)
    ELSE {}

\* lines 603-612: the loop over previousElementSibling
RECURSIVE siblingWalk(_, _)
siblingWalk(sibs, i) ==
    IF i > Len(sibs) THEN <<>>
    ELSE IF Trim(sibs[i]) # <<>> THEN Trim(sibs[i])
         ELSE siblingWalk(sibs, i + 1)

siblingStep(element, question) ==
    IF ~Truthy(question) THEN siblingWalk(element.prevSiblings, 1) ELSE question

\* lines 615-624: contenteditable fields look at the enclosing block
editableStep(element, question) ==
    IF ~Truthy(question) /\ element.editable /\ element.heading # NoText
    THEN Trim(element.heading)
    ELSE question

detectFormQuestion(element) ==
    editableStep(element,
      siblingStep(element,
        ancestorStep(element,
          ariaLabelStep(element,
            placeholderStep(element, labelForStep(element))))))

\* ------------------------------------------------------------ the page
\* Requests are numbered in the order their trigger clicks start them.
Reqs == 1..MaxClicks

\* The page's own fields.  f1 is a plain <textarea placeholder=" P">;
\* f2 is a <div contenteditable="true" class="form-control"> without any
\* label, placeholder or heading.
Fields == {"f1", "f2"}

\* The textarea of the question modal opened by request h (line 637).
TaNames == <<"ta1", "ta2", "ta3", "ta4">>
TaOf(h) == TaNames[h]
Tas == {TaOf(h) : h \in Reqs}

Elems == Fields \cup Tas

\* Requests started from the buttons of airtable-handler.js.
AirReqs == 1..MaxAir

\* The editors of two Airtable cells (airtable-handler.js line 108): c1 is
\* an <input type="text">, c2 a <div contenteditable="true">.
Cells == {"c1", "c2"}

\* The textarea of the question modal opened by Airtable request r.
AirTaNames == <<"tb1", "tb2", "tb3">>
AirTaOf(r) == AirTaNames[r]
AirTas == {AirTaOf(r) : r \in AirReqs}

AirElems == Cells \cup AirTas

\* Two more elements the selector list matches (lines 12 and 21): s1 is an
\* <input type="search">, r1 a <div role="textbox"> whose editing is done by
\* the page's own scripts (no contenteditable="true" attribute).
Widgets == {"s1", "r1"}

AllElems == Elems \cup AirElems \cup Widgets

\* The conversation URL and the answer the backend returns for request h.
UrlNames == <<"u1", "u2", "u3", "u4">>
UrlOf(h) == UrlNames[h]
AnswerOf(h) == <<"a", UrlNames[h]>>

\* tagName / type / contenteditable of an element, as insertTextIntoElement
\* and handleElementFocus read them
kindOf(el) ==
    IF el \in {"f2", "c2"} THEN "contenteditable"
    ELSE IF el = "c1" THEN "text"
    ELSE IF el = "s1" THEN "search"
    ELSE IF el = "r1" THEN "role" ELSE "textarea"

\* lines 466-468 and 722-725: class form-control, data-component, role or a
\* rich-editor ancestor
isFramework(el) == el \in {"f2", "r1"}

\* FORM_ELEMENTS.some(selector => el.matches(selector)), lines 8-26: the
\* page fields and the modal's textarea match ('textarea'); body and the
\* trigger button do not.
matchesFormElements(el) == el \in AllElems

BodyDoc == <<[isBody |-> TRUE, label |-> NoText], [isBody |-> FALSE, label |-> NoText]>>

\* What detectFormQuestion reads of each element of the page.
domOf(el) ==
    [hasId |-> FALSE, labelFor |-> NoText,
     placeholder |-> IF el = "f1" THEN <<SP, "P">>
                     ELSE IF el \in Tas THEN <<"W">> ELSE <<>>,
     ariaLabel |-> NoText,
     ancestors |-> BodyDoc,
     prevSiblings |-> <<>>,
     editable |-> (kindOf(el) = "contenteditable"),
     heading |-> NoText]

Variants == {"full", "simple"}

VARIABLES
    variant,                \* which of the two scripts of content.js runs
    autoDetect,             \* chrome.storage.sync: settings.autoDetect
    activeElement,          \* line 27
    currentConversationUrl, \* line 29
    isProcessing,           \* line 30
    button,                 \* claudeButton: processing class, spinner, title
    docFocus,               \* document.activeElement
    attached,               \* elements contained in document.body
    content,                \* value / innerHTML of every element
    hs,                     \* the running handleClaudeButtonClick calls
    clearTimers,            \* pending 10 s timers of the finally block, oldest first
    opened,                 \* URLs given to window.open
    pendingWrites,          \* pending 50 ms timers of insertTextIntoElement
    lastWrite,              \* the latest write done by insertTextIntoElement
    notification,           \* the latest showNotification
    mdTimers,               \* pending 50 ms timers of handleGlobalMousedown
    dq,                     \* input and result of a detectFormQuestion call
    buttonStyle,            \* claudeButton.style: display, and the element left/top
                            \* were computed from
    blurTimers,             \* pending 100 ms timers of handleElementBlur
    initialized,            \* per element: dataset.claudeInitialized and the number
                            \* of focus/blur listener pairs attached
    ctx,                    \* a capturePageContext call: its inputs, position, result
    air,                    \* the running claude-airtable-request listeners
    scan,                   \* the detector: whether the 1.5 s retry is pending, and
                            \* the mutation observers set on the iframe's document
    focusRun,               \* the handling of the latest focus event: the element,
                            \* the handleElementFocus invocations it made, and
                            \* whether it ran out of call stack
    popup                   \* the settings popup: the options and the value of
                            \* #project-select, the auto-detect checkbox, the
                            \* fetchProjects calls under way, and defaultProject
                            \* in chrome.storage.sync
    ,
    grid                    \* an Airtable page: the cells in the document, those
                            \* with a focus class, the buttons appended to each,
                            \* and the mutation records queued for the observer
                            \* of airtable-handler.js

vars == <<variant, autoDetect, activeElement, currentConversationUrl, isProcessing,
          button, docFocus, attached, content, hs, clearTimers, opened,
          pendingWrites, lastWrite, notification, mdTimers, dq,
          buttonStyle, blurTimers, initialized, ctx, air, scan, focusRun, popup, grid>>

\* lines 298-307: the button as createClaudeButton leaves it
ButtonIdle == [processing |-> FALSE, spinnerHidden |-> TRUE, title |-> "ask"]
\* lines 456-459
ButtonProcessing == [processing |-> TRUE, spinnerHidden |-> FALSE, title |-> "open"]

\* A call of handleClaudeButtonClick: where it is suspended (pc), the field
\* that was active when the trigger was clicked (origin, kept for the
\* properties only) and its local `question`.  A call that has returned
\* keeps nothing.
NoRun == [pc |-> "idle", origin |-> Null, question |-> <<>>]
DoneRun == [pc |-> "done", origin |-> Null, question |-> <<>>]

NoWrite == [req |-> 0, el |-> Null, text |-> <<>>, inDoc |-> FALSE, origin |-> Null,
            events |-> <<>>]
NoNotification == [req |-> 0, text |-> "none"]

\* element.focus(): a detached element cannot take focus.
focusResult(el) == IF el \in attached THEN el ELSE docFocus

DqIdle == [phase |-> "none", element |-> domOf("f1"), result |-> <<>>,
           searched |-> {}]

\* ------------------------------------------------- the trigger button's style
\* styles.css line 4 (display: none); createClaudeButton sets no inline style
HiddenStyle == [display |-> "none", at |-> Null]

\* lines 374-416 (1070-1112): left/top are computed from the element's
\* bounding box and display becomes flex
positionClaudeButton(style, element) ==
    IF element = Null THEN style ELSE [display |-> "flex", at |-> element]

\* lines 438-442 (1134-1138)
hideClaudeButton(style) == [style EXCEPT !.display = "none"]

\* ---------------------------------------------- focus and blur listeners
Unmarked == [mark |-> FALSE, listeners |-> 0]
Marked == [mark |-> TRUE, listeners |-> 1]

\* Mutant: the initialized mark is not looked at.
addListenersUnguarded(rec) == [mark |-> TRUE, listeners |-> rec.listeners + 1]

\* lines 262-266 (129-133, 160-164): one matched element of a scan
addListeners(rec) ==
    IF rec.mark THEN rec ELSE [mark |-> TRUE, listeners |-> rec.listeners + 1]

\* lines 258-268: a scan over the matching elements `els` of a document
addFormElementListeners(init, els) ==
    [el \in DOMAIN init |-> IF el \in els THEN addListeners(init[el]) ELSE init[el]]

\* the handleElementBlur listeners a blur event on el runs
blurListeners(el) ==
    IF el \in DOMAIN initialized THEN initialized[el].listeners ELSE 0

\* lines 364-372 (1060-1068): every listener run arms one 100 ms timer
blurOn(el) ==
    IF blurTimers + blurListeners(el) > MaxBlur THEN MaxBlur
    ELSE blurTimers + blurListeners(el)

\* el.focus() seen from the element losing the focus
focusBlurs(el) ==
    IF el \in attached /\ docFocus # el THEN blurOn(docFocus) ELSE blurTimers

\* Not an Airtable page: airtable-handler.js returns at line 5.
GridIdle == [present |-> {}, focused |-> {}, buttons |-> <<>>, records |-> <<>>]

\* The popup is not open and nothing was ever saved.
PopupClosed == [options |-> <<>>, value |-> "", checked |-> TRUE, fetches |-> <<>>,
                defaultProject |-> Null]

\* No focus event handled yet.
FocusIdle == [el |-> Null, calls |-> 0, overflow |-> FALSE]

\* The detector once retryInitialization has run on a page without iframes.
ScanSettled == [retryPending |-> FALSE, frameObservers |-> 0, blocked |-> "none",
                loaded |-> TRUE, listening |-> TRUE]

\* No capturePageContext call has been made.
NoResult == [textContext |-> <<>>, screenshotData |-> Null, rejected |-> FALSE,
             from |-> "none"]
CtxIdle == [phase |-> "none", handler |-> "none", url |-> <<>>, hrefLen |-> 0,
            titleLen |-> 0, pageLen |-> 0, throws |-> FALSE, jinaApi |-> "none",
            reply |-> "none", replyLen |-> 0, sent |-> {}, result |-> NoResult,
            raw |-> <<>>, cleaned |-> <<>>, question |-> <<>>, title |-> <<>>]
\* A run of the claude-airtable-request listener: where it is suspended,
\* the `element` and whether a `question` came with the event, and the
\* answer it received.
NoAirRun == [pc |-> "idle", element |-> Null, question |-> FALSE, answer |-> <<>>]
AirIdle == [r \in AirReqs |-> NoAirRun]

Init ==
    /\ variant \in Variants
    /\ autoDetect \in BOOLEAN
    /\ activeElement = Null
    /\ currentConversationUrl = Null
    /\ isProcessing = FALSE
    /\ button = ButtonIdle
    /\ docFocus = "body"
    /\ attached = Fields
    /\ content = [el \in Elems |-> <<>>]
    /\ hs = [h \in Reqs |-> NoRun]
    /\ clearTimers = <<>>
    /\ opened = <<>>
    /\ pendingWrites = {}
    /\ lastWrite = NoWrite
    /\ notification = NoNotification
    /\ mdTimers = {}
    /\ dq = DqIdle
    /\ buttonStyle = HiddenStyle
    /\ blurTimers = 0
    /\ initialized = [el \in Elems |-> IF el \in Fields THEN Marked ELSE Unmarked]
    /\ ctx = CtxIdle
    /\ air = AirIdle
    /\ scan = ScanSettled
    /\ focusRun = FocusIdle
    /\ popup = PopupClosed
    /\ grid = GridIdle

\* --------------------------------------------------- handleClaudeButtonClick
\* Mutant: the shortcut is never taken.
clickOpensNever == FALSE

\* line 446 (1142): the click takes the "open the conversation" shortcut
clickOpensConversation == isProcessing /\ currentConversationUrl # Null

\* Mutant: detection runs whatever the setting says.
questionAlwaysDetected(auto, el) == detectFormQuestion(domOf(el))

\* lines 482-487 (1161-1166): the question before any prompt
questionAfterDetect(auto, el) ==
    IF auto THEN detectFormQuestion(domOf(el)) ELSE <<>>

\* line 490 (1169): if (!question) question = await promptForQuestion()
needsPrompt(question) == ~Truthy(question)

\* element.focus() seen from the focus tracker: the focusin of an attached,
\* not yet focused element reaches handleGlobalFocus -> handleElementFocus
\* (lines 172-177, 344-345), which makes it the active field.
focusActive(el) ==
    IF el \in attached /\ docFocus # el /\ matchesFormElements(el)
    THEN el ELSE activeElement

\* the same focusin seen from the button: handleElementFocus positions it
\* (line 353, 1057)
focusStyle(el) ==
    IF el \in attached /\ docFocus # el /\ matchesFormElements(el)
    THEN positionClaudeButton(buttonStyle, el) ELSE buttonStyle

\* Mutant: the finally block leaves isProcessing as the handler left it.
finallyProcessingKept(before) == before

\* lines 549-561 (1207-1219): the finally block, applied to what the
\* handler left in isProcessing and on the button
finallyProcessing(before) == FALSE
finallyButton(before) == ButtonIdle
finallyTimers(h) == Append(clearTimers, h)

\* lines 462-469: activeElement.focus(), then for framework fields
\* activeElement.click(), which reaches handleGlobalClick (lines 179-187)
clickedStyle(el) ==
    IF isFramework(el) /\ el \in attached
    THEN positionClaudeButton(buttonStyle, el) ELSE focusStyle(el)

\* lines 446-449 (1142-1145)
ClickOpen ==
    /\ clickOpensConversation
    /\ Len(opened) < MaxOpens
    /\ opened' = Append(opened, currentConversationUrl)
    /\ UNCHANGED <<variant, autoDetect, activeElement, currentConversationUrl,
                   isProcessing, button, docFocus, attached, content, hs,
                   clearTimers, pendingWrites, lastWrite, notification, mdTimers, dq,
                   buttonStyle, blurTimers, initialized, ctx, air, scan, focusRun, popup, grid>>

\* lines 451-479 (1147-1158): up to the first await
ClickStart(h) ==
    /\ ~clickOpensConversation
    /\ activeElement # Null
    /\ hs[h].pc = "idle"
    /\ \A g \in Reqs : g < h => hs[g].pc # "idle"
    /\ isProcessing' = TRUE
    /\ button' = ButtonProcessing
    /\ docFocus' = IF variant = "full" THEN focusResult(activeElement) ELSE docFocus
    /\ hs' = [hs EXCEPT ![h].pc = IF variant = "full" /\ isFramework(activeElement)
                                  THEN "clickwait" ELSE "storage",
                        ![h].origin = activeElement]
    /\ buttonStyle' = IF variant = "full" THEN clickedStyle(activeElement) ELSE buttonStyle
    /\ blurTimers' = IF variant = "full" THEN focusBlurs(activeElement) ELSE blurTimers
    /\ UNCHANGED <<variant, autoDetect, activeElement, currentConversationUrl,
                   attached, content, clearTimers, opened, pendingWrites, lastWrite,
                   notification, mdTimers, dq,
                   initialized, ctx, air, scan, focusRun, popup, grid>>

\* lines 472-479: the 100 ms wait after activeElement.click() ends
ClickWaitDone(h) ==
    /\ hs[h].pc = "clickwait"
    /\ docFocus' = focusResult(activeElement)
    /\ hs' = [hs EXCEPT ![h].pc = "storage"]
    /\ buttonStyle' = focusStyle(activeElement)
    /\ blurTimers' = focusBlurs(activeElement)
    /\ UNCHANGED <<variant, autoDetect, activeElement, currentConversationUrl,
                   isProcessing, button, attached, content, clearTimers, opened,
                   pendingWrites, lastWrite, notification, mdTimers, dq,
                   initialized, ctx, air, scan, focusRun, popup, grid>>

\* lines 513-519 (1184-1188): the askClaude message leaves with `question`
sendAskClaude(run, question) ==
    [run EXCEPT !.pc = "waiting", !.question = question]

\* lines 505-519 (1183-1188): what follows a non-empty question: the full
\* script first captures the page context
afterQuestion(run, question) ==
    IF variant = "full"
    THEN [run EXCEPT !.pc = "capture", !.question = question]
    ELSE sendAskClaude(run, question)

\* lines 479-492 (1158-1171): the settings arrive; detect, or open the modal
StorageDone(h) ==
    /\ hs[h].pc = "storage"
    /\ LET q == questionAfterDetect(autoDetect, activeElement) IN
       IF needsPrompt(q)
       THEN \* promptForQuestion, lines 629-650: modal appended, textarea focused
            /\ hs' = [hs EXCEPT ![h].pc = "modal"]
            /\ attached' = attached \cup {TaOf(h)}
            /\ docFocus' = TaOf(h)
            /\ activeElement' = TaOf(h)
            /\ buttonStyle' = positionClaudeButton(buttonStyle, TaOf(h))
            /\ blurTimers' = blurOn(docFocus)
            \* the page observer (lines 272-285) scans the document again
            /\ initialized' = addFormElementListeners(initialized, attached')
       ELSE /\ hs' = [hs EXCEPT ![h] = afterQuestion(@, q)]
            /\ UNCHANGED <<attached, docFocus, activeElement, buttonStyle,
                           blurTimers, initialized, focusRun, popup, grid>>
    /\ UNCHANGED <<variant, autoDetect, currentConversationUrl, isProcessing, button,
                   content, clearTimers, opened, pendingWrites, lastWrite,
                   notification, mdTimers, dq,
                   ctx, air, scan, focusRun, popup, grid>>

\* What the user may have typed into the modal's textarea.
ModalTexts == Texts("q")

\* lines 494-502 (1173-1181) followed by the finally block
ModalAbort(h) ==
    /\ isProcessing' = finallyProcessing(FALSE)
    /\ button' = finallyButton(ButtonIdle)
    /\ currentConversationUrl' = Null
    /\ clearTimers' = finallyTimers(h)
    /\ hs' = [hs EXCEPT ![h] = DoneRun]

ModalProceed(h, question) ==
    /\ hs' = [hs EXCEPT ![h] = afterQuestion(@, question)]
    /\ UNCHANGED <<isProcessing, button, currentConversationUrl, clearTimers, focusRun, popup, grid>>

\* Mutant: Submit resolves with the text as typed.
modalAnswerUntrimmed(cancel, text) == IF cancel THEN <<>> ELSE text

\* lines 652-675 (1310-1333): what the modal resolves with
modalAnswer(cancel, text) == IF cancel THEN <<>> ELSE Trim(text)

\* lines 652-675 (1310-1333): Cancel, Submit or Enter; the modal leaves the
\* document and the handler continues
ModalResolve(h, cancel, text) ==
    /\ hs[h].pc = "modal"
    /\ attached' = attached \ {TaOf(h)}
    /\ docFocus' = "body"
    /\ IF ~Truthy(modalAnswer(cancel, text))
       THEN ModalAbort(h)
       ELSE ModalProceed(h, modalAnswer(cancel, text))
    /\ blurTimers' = blurOn(TaOf(h))
    /\ initialized' = [initialized EXCEPT ![TaOf(h)] = Unmarked]
    /\ UNCHANGED <<variant, autoDetect, activeElement, content, opened,
                   pendingWrites, lastWrite, notification, mdTimers, dq,
                   buttonStyle, ctx, air, scan, focusRun, popup, grid>>

\* lines 652-675 (1310-1333): the modal leaves the document and the promise
\* resolves with `answer`; lines 494-503: the handler continues
modalCloses(h, answer) ==
    /\ attached' = attached \ {TaOf(h)}
    /\ docFocus' = "body"
    /\ IF ~Truthy(answer) THEN ModalAbort(h) ELSE ModalProceed(h, answer)
    /\ blurTimers' = blurOn(TaOf(h))
    /\ initialized' = [initialized EXCEPT ![TaOf(h)] = Unmarked]
    /\ UNCHANGED <<variant, autoDetect, activeElement, content, opened,
                   pendingWrites, lastWrite, notification, mdTimers, dq,
                   buttonStyle, ctx, air, scan, focusRun, popup, grid>>

\* The user types into the modal's textarea.
ModalInput(h, text) ==
    /\ hs[h].pc = "modal"
    /\ content[TaOf(h)] # text
    /\ content' = [content EXCEPT ![TaOf(h)] = text]
    /\ UNCHANGED <<variant, autoDetect, activeElement, currentConversationUrl,
                   isProcessing, button, docFocus, attached, hs, clearTimers, opened,
                   pendingWrites, lastWrite, notification, mdTimers, dq,
                   buttonStyle, blurTimers, initialized, ctx, air, scan, focusRun, popup, grid>>

\* Mutant: every Enter submits.
isSubmitKeyAnyEnter(key, shift) == key = "Enter"

\* line 668 (1326): event.key === 'Enter' && !event.shiftKey
isSubmitKey(key, shift) == key = "Enter" /\ ~shift

\* lines 667-674 (1325-1332): a key goes down in the textarea; Enter without
\* Shift submits, Enter with Shift is left to the textarea, which takes a
\* line break
ModalKeydown(h, key, shift) ==
    /\ hs[h].pc = "modal"
    /\ key = "Enter"
    /\ IF isSubmitKey(key, shift)
       THEN modalCloses(h, Trim(content[TaOf(h)]))
       ELSE /\ Len(content[TaOf(h)]) < MaxTyped
            /\ content' = [content EXCEPT ![TaOf(h)] = Append(@, LF)]
            /\ UNCHANGED <<variant, autoDetect, activeElement, currentConversationUrl,
                           isProcessing, button, docFocus, attached, hs, clearTimers,
                           opened, pendingWrites, lastWrite, notification, mdTimers,
                           dq, buttonStyle, blurTimers, initialized, ctx, air, scan, focusRun, popup, grid>>

\* lines 653-665 (1311-1323): Cancel or Submit is clicked
ModalClick(h, which) ==
    /\ hs[h].pc = "modal"
    /\ which \in {"cancel", "submit"}
    /\ modalCloses(h, IF which = "cancel" THEN <<>> ELSE Trim(content[TaOf(h)]))

\* line 505: capturePageContext resolves; lines 508-519 send the message
CaptureDone(h) ==
    /\ hs[h].pc = "capture"
    /\ hs' = [hs EXCEPT ![h] = sendAskClaude(@, @.question)]
    /\ UNCHANGED <<variant, autoDetect, activeElement, currentConversationUrl,
                   isProcessing, button, docFocus, attached, content, clearTimers,
                   opened, pendingWrites, lastWrite, notification, mdTimers, dq,
                   buttonStyle, blurTimers, initialized, ctx, air, scan, focusRun, popup, grid>>

\* ------------------------------------------------------------ the response
\* What chrome.runtime.sendMessage may deliver for askClaude: lastError set
\* (rejected), a response without an answer, an answer, an answer with chatUrl.
Outcomes == {"rejected", "noanswer", "answer", "answerurl"}

\* lines 523-525 (1192-1194)
urlAfter(h, outcome) ==
    IF outcome = "answerurl" THEN UrlOf(h) ELSE currentConversationUrl

\* Characters of an answer that a field does not keep as they are.
AMP == "&"

RECURSIVE stripNewlines(_)
stripNewlines(text) ==
    IF text = <<>> THEN <<>>
    ELSE IF Head(text) = LF THEN stripNewlines(Tail(text))
    ELSE <<Head(text)>> \o stripNewlines(Tail(text))

\* `element.value = text` read back (lines 691, 1343): a textarea keeps the
\* text, a single-line input drops its line breaks.
valueOf(kind, text) == IF kind = "text" THEN stripNewlines(text) ELSE text

\* `element.innerHTML = text` read back (lines 706, 1353): the text is parsed
\* as markup and serialised again; an ampersand that starts no character
\* reference comes back as the reference &amp;.
innerHTMLOf(text) ==
    [i \in DOMAIN text |-> IF text[i] = AMP THEN "&amp;" ELSE text[i]]

\* What a field holds once `text` was assigned to it.
storedForm(el, text) ==
    IF kindOf(el) = "contenteditable" THEN innerHTMLOf(text)
    ELSE valueOf(kindOf(el), text)

\* Mutant: the answer is appended to what the field holds.
writeAppend(cont, el, text) ==
    IF kindOf(el) \in {"textarea", "text", "contenteditable"}
    THEN [cont EXCEPT ![el] = @ \o storedForm(el, text)]
    ELSE cont

\* lines 688-719 (1341-1370): the assignment insertTextIntoElement makes
writeInto(cont, el, text) ==
    IF kindOf(el) \in {"textarea", "text", "contenteditable"}
    THEN [cont EXCEPT ![el] = storedForm(el, text)]
    ELSE cont

\* lines 688-733 (1341-1355): the assignment and the events
\* insertTextIntoElement dispatches, in their order
insertEvents(el) ==
    (IF kindOf(el) \in {"textarea", "text"}
     THEN IF variant = "full" THEN <<"set", "input", "change", "keyup">>
          ELSE <<"set", "input">>
     ELSE IF kindOf(el) = "contenteditable" THEN <<"set", "input">>
     ELSE <<>>)
    \o (IF variant = "full" /\ isFramework(el) THEN <<"blur">> ELSE <<>>)

WriteRecord(h, origin, el, text) ==
    [req |-> h, el |-> el, text |-> text, inDoc |-> el \in attached,
     origin |-> origin, events |-> insertEvents(el)]

\* Mutant: a failed call is reported as a success.
failureNoticeSuccess(outcome) == "success"

\* line 544 / 548 (1202 / 1206): the notification of a failed backend call
failureNotice(outcome) == IF outcome = "rejected" THEN "error" ELSE "noanswer"

\* Mutant: a failed call is sent again.
ResponseFailureRetry(h, outcome) ==
    /\ hs' = [hs EXCEPT ![h].pc = "waiting"]
    /\ notification' = [req |-> h, text |-> failureNotice(outcome)]
    /\ UNCHANGED <<isProcessing, button, clearTimers, focusRun, popup, grid>>
    /\ UNCHANGED <<currentConversationUrl, docFocus, content, lastWrite, pendingWrites,
                   buttonStyle, blurTimers, focusRun, popup, grid>>

\* lines 543-548 (1201-1206): the message was rejected (catch) or the
\* response carries no answer (else); then the finally block
ResponseFailure(h, outcome) ==
    /\ hs' = [hs EXCEPT ![h] = DoneRun]
    /\ notification' = [req |-> h, text |-> failureNotice(outcome)]
    /\ isProcessing' = finallyProcessing(isProcessing)
    /\ button' = finallyButton(button)
    /\ clearTimers' = finallyTimers(h)
    /\ UNCHANGED <<currentConversationUrl, docFocus, content, lastWrite, pendingWrites,
                   buttonStyle, blurTimers, focusRun, popup, grid>>

\* line 528: document.body.contains(activeElement)
fieldStillThere == activeElement \in attached

\* lines 521-542 of the full script
ResponseAnswerFull(h, outcome) ==
    /\ currentConversationUrl' = urlAfter(h, outcome)
    /\ IF fieldStillThere
       THEN \* lines 530-533: focus, then wait 50 ms
            /\ docFocus' = focusResult(activeElement)
            /\ buttonStyle' = focusStyle(activeElement)
            /\ blurTimers' = focusBlurs(activeElement)
            /\ hs' = [hs EXCEPT ![h].pc = "insertwait"]
            /\ UNCHANGED <<isProcessing, button, clearTimers, notification, focusRun, popup, grid>>
       ELSE \* line 541, then the finally block
            /\ hs' = [hs EXCEPT ![h] = DoneRun]
            /\ notification' = [req |-> h, text |-> "gone"]
            /\ isProcessing' = finallyProcessing(isProcessing)
            /\ button' = finallyButton(button)
            /\ clearTimers' = finallyTimers(h)
            /\ UNCHANGED <<docFocus, buttonStyle, blurTimers, focusRun, popup, grid>>
    /\ UNCHANGED <<content, lastWrite, pendingWrites, focusRun, popup, grid>>

\* lines 1190-1200 of the simple script, insertTextIntoElement (1337-1371)
\* included, then the finally block
ResponseAnswerSimple(h, outcome) ==
    /\ currentConversationUrl' = urlAfter(h, outcome)
    /\ content' = writeInto(content, activeElement, AnswerOf(h))
    /\ lastWrite' = WriteRecord(h, hs[h].origin, activeElement, AnswerOf(h))
    /\ docFocus' = focusResult(activeElement)
    /\ buttonStyle' = focusStyle(activeElement)
    /\ blurTimers' = focusBlurs(activeElement)
    /\ hs' = [hs EXCEPT ![h] = DoneRun]
    /\ notification' = [req |-> h, text |-> "success"]
    /\ isProcessing' = finallyProcessing(isProcessing)
    /\ button' = finallyButton(button)
    /\ clearTimers' = finallyTimers(h)
    /\ UNCHANGED pendingWrites

\* The callback of sendMessageToBackground (lines 789-799) runs and the
\* handler continues to its next suspension point.
Response(h, outcome) ==
    /\ hs[h].pc = "waiting"
    /\ IF outcome \in {"rejected", "noanswer"} THEN ResponseFailure(h, outcome)
       ELSE IF variant = "full" THEN ResponseAnswerFull(h, outcome)
       ELSE ResponseAnswerSimple(h, outcome)
    /\ UNCHANGED <<variant, autoDetect, activeElement, attached, opened, mdTimers, dq,
                   initialized, ctx, air, scan, focusRun, popup, grid>>

\* lines 533-539 of the full script: the 50 ms wait ends;
\* insertTextIntoElement (lines 679-686) focuses and arms its own timer;
\* the success notification; the finally block
InsertWaitDone(h) ==
    /\ hs[h].pc = "insertwait"
    /\ docFocus' = focusResult(activeElement)
    /\ pendingWrites' = pendingWrites \cup
         {[req |-> h, el |-> activeElement, text |-> AnswerOf(h),
           origin |-> hs[h].origin]}
    /\ hs' = [hs EXCEPT ![h] = DoneRun]
    /\ notification' = [req |-> h, text |-> "success"]
    /\ isProcessing' = finallyProcessing(isProcessing)
    /\ button' = finallyButton(button)
    /\ clearTimers' = finallyTimers(h)
    /\ buttonStyle' = focusStyle(activeElement)
    /\ blurTimers' = focusBlurs(activeElement)
    /\ UNCHANGED <<variant, autoDetect, activeElement, currentConversationUrl,
                   attached, content, opened, lastWrite, mdTimers, dq,
                   initialized, ctx, air, scan, focusRun, popup, grid>>

\* lines 729-733: the synthetic blur runs the field's blur listeners, then
\* element.focus() takes the focus from the element that has it
writeBlurs(el) ==
    IF ~isFramework(el) THEN blurTimers
    ELSE LET own == blurListeners(el)
             left == IF el \in attached /\ docFocus # el
                     THEN blurListeners(docFocus) ELSE 0
         IN IF blurTimers + own + left > MaxBlur THEN MaxBlur
            ELSE blurTimers + own + left

\* lines 686-735: the timer of insertTextIntoElement fires
WriteTimer(w) ==
    /\ w \in pendingWrites
    /\ pendingWrites' = pendingWrites \ {w}
    /\ content' = writeInto(content, w.el, w.text)
    /\ lastWrite' = WriteRecord(w.req, w.origin, w.el, w.text)
    /\ IF isFramework(w.el)
       THEN \* lines 729-733: synthetic blur, then element.focus()
            /\ docFocus' = focusResult(w.el)
            /\ activeElement' = focusActive(w.el)
       ELSE UNCHANGED <<docFocus, activeElement, focusRun, popup, grid>>
    /\ buttonStyle' = IF isFramework(w.el) THEN focusStyle(w.el) ELSE buttonStyle
    /\ blurTimers' = writeBlurs(w.el)
    /\ UNCHANGED <<variant, autoDetect, currentConversationUrl, isProcessing, button,
                   attached, hs, clearTimers, opened, notification, mdTimers, dq,
                   initialized, ctx, air, scan, focusRun, popup, grid>>

\* lines 558-560 (1216-1218): the oldest pending 10 s timer fires
ClearTimerFire ==
    /\ clearTimers # <<>>
    /\ currentConversationUrl' = Null
    /\ clearTimers' = Tail(clearTimers)
    /\ UNCHANGED <<variant, autoDetect, activeElement, isProcessing, button, docFocus,
                   attached, content, hs, opened, pendingWrites, lastWrite,
                   notification, mdTimers, dq,
                   buttonStyle, blurTimers, initialized, ctx, air, scan, focusRun, popup, grid>>

\* ------------------------------------------------------- the focus tracker
\* Elements of the page that match the selector list and can take events.
Focusable == {el \in AllElems : el \in attached}

\* The user moves the focus to el: focusin -> handleGlobalFocus ->
\* handleElementFocus, lines 172-177 and 344-345 (960-965, 1053-1054)
handleGlobalFocus(el) ==
    /\ el \in Focusable
    /\ docFocus # el
    /\ docFocus' = el
    /\ activeElement' = IF matchesFormElements(el) THEN el ELSE activeElement
    /\ buttonStyle' = focusStyle(el)
    /\ blurTimers' = focusBlurs(el)
    /\ UNCHANGED <<variant, autoDetect, currentConversationUrl, isProcessing, button,
                   attached, content, hs, clearTimers, opened, pendingWrites,
                   lastWrite, notification, mdTimers, dq,
                   initialized, ctx, air, scan, focusRun, popup, grid>>

\* lines 179-187 (full script only)
handleGlobalClick(el) ==
    /\ variant = "full"
    /\ el \in Focusable
    /\ matchesFormElements(el)
    /\ activeElement # el \/ buttonStyle # positionClaudeButton(buttonStyle, el)
    /\ activeElement' = el
    /\ buttonStyle' = positionClaudeButton(buttonStyle, el)
    /\ UNCHANGED <<variant, autoDetect, currentConversationUrl, isProcessing, button,
                   docFocus, attached, content, hs, clearTimers, opened,
                   pendingWrites, lastWrite, notification, mdTimers, dq,
                   blurTimers, initialized, ctx, air, scan, focusRun, popup, grid>>

\* lines 189-197 (full script only): the 50 ms timer is armed
handleGlobalMousedown(el) ==
    /\ variant = "full"
    /\ el \in Focusable
    /\ matchesFormElements(el)
    /\ el \notin mdTimers
    /\ Cardinality(mdTimers) < MaxMousedown
    /\ mdTimers' = mdTimers \cup {el}
    /\ UNCHANGED <<variant, autoDetect, activeElement, currentConversationUrl,
                   isProcessing, button, docFocus, attached, content, hs, clearTimers,
                   opened, pendingWrites, lastWrite, notification, dq,
                   buttonStyle, blurTimers, initialized, ctx, air, scan, focusRun, popup, grid>>

\* lines 197-204: the timer fires
MousedownTimer(el) ==
    /\ el \in mdTimers
    /\ mdTimers' = mdTimers \ {el}
    /\ activeElement' = IF docFocus = el \/ docFocus = "body" THEN el ELSE activeElement
    /\ buttonStyle' = IF docFocus = el \/ docFocus = "body"
                      THEN positionClaudeButton(buttonStyle, el) ELSE buttonStyle
    /\ UNCHANGED <<variant, autoDetect, currentConversationUrl, isProcessing, button,
                   docFocus, attached, content, hs, clearTimers, opened,
                   pendingWrites, lastWrite, notification, dq,
                   blurTimers, initialized, ctx, air, scan, focusRun, popup, grid>>

\* lines 212-235 (full script only): a class/style mutation that leaves el
\* with focus indicators
focusStyleObserver(el) ==
    /\ variant = "full"
    /\ el \in Focusable
    /\ matchesFormElements(el)
    /\ activeElement # el \/ buttonStyle # positionClaudeButton(buttonStyle, el)
    /\ activeElement' = el
    /\ buttonStyle' = positionClaudeButton(buttonStyle, el)
    /\ UNCHANGED <<variant, autoDetect, currentConversationUrl, isProcessing, button,
                   docFocus, attached, content, hs, clearTimers, opened,
                   pendingWrites, lastWrite, notification, mdTimers, dq,
                   blurTimers, initialized, ctx, air, scan, focusRun, popup, grid>>

\* lines 245-255 (full script only): the 1 s poll
PollTick ==
    /\ variant = "full"
    /\ docFocus # "body"
    /\ matchesFormElements(docFocus)
    /\ activeElement # docFocus
    /\ activeElement' = docFocus
    /\ buttonStyle' = positionClaudeButton(buttonStyle, docFocus)
    /\ UNCHANGED <<variant, autoDetect, currentConversationUrl, isProcessing, button,
                   docFocus, attached, content, hs, clearTimers, opened,
                   pendingWrites, lastWrite, notification, mdTimers, dq,
                   blurTimers, initialized, ctx, air, scan, focusRun, popup, grid>>

\* Mutant: the blur timer hides the button whatever holds the focus.
blurTimerHidesAlways(focus, style) == hideClaudeButton(style)

\* lines 366-371 (1062-1067): what the blur timer leaves of the style
blurTimerStyle(focus, style) ==
    IF focus # "button" THEN hideClaudeButton(style) ELSE style

\* lines 366-371 (1062-1067): a blur timer fires
BlurTimer ==
    /\ blurTimers > 0
    /\ blurTimers' = blurTimers - 1
    /\ buttonStyle' = blurTimerStyle(docFocus, buttonStyle)
    /\ UNCHANGED <<variant, autoDetect, activeElement, currentConversationUrl,
                   isProcessing, button, docFocus, attached, content, hs, clearTimers,
                   opened, pendingWrites, lastWrite, notification, mdTimers, dq,
                   initialized, ctx, air, scan, focusRun, popup, grid>>

\* The focus leaves the fields: to the page background or to the trigger button.
FocusLeaves(to) ==
    /\ to \in {"body", "button"}
    /\ docFocus # to
    /\ docFocus' = to
    /\ blurTimers' = blurOn(docFocus)
    /\ UNCHANGED <<variant, autoDetect, activeElement, currentConversationUrl,
                   isProcessing, button, attached, content, hs, clearTimers, opened,
                   pendingWrites, lastWrite, notification, mdTimers, dq,
                   buttonStyle, initialized, ctx, air, scan, focusRun, popup, grid>>

\* The page removes one of its fields from the document.
RemoveField(f) ==
    /\ f \in Fields \cap attached
    /\ attached' = attached \ {f}
    /\ docFocus' = IF docFocus = f THEN "body" ELSE docFocus
    /\ UNCHANGED <<variant, autoDetect, activeElement, currentConversationUrl,
                   isProcessing, button, content, hs, clearTimers, opened,
                   pendingWrites, lastWrite, notification, mdTimers, dq,
                   buttonStyle, blurTimers, initialized, ctx, air, scan, focusRun, popup, grid>>

\* ------------------------------------------------------------ specification
HandlerStep(h) ==
    \/ ClickWaitDone(h)
    \/ StorageDone(h)
    \/ \E cancel \in BOOLEAN, text \in ModalTexts : ModalResolve(h, cancel, text)
    \/ CaptureDone(h)
    \/ \E outcome \in Outcomes : Response(h, outcome)
    \/ InsertWaitDone(h)

\* Spec: the trigger with up to MaxClicks overlapping requests and their
\* timers, the focus moving between the fields, and fields leaving the page.
Next ==
    \/ ClickOpen
    \/ \E h \in Reqs : ClickStart(h)
    \/ \E h \in Reqs : HandlerStep(h)
    \/ \E w \in pendingWrites : WriteTimer(w)
    \/ ClearTimerFire
    \/ BlurTimer
    \/ \E el \in Elems : handleGlobalFocus(el)
    \/ \E f \in Fields : RemoveField(f)

Spec == Init /\ [][Next]_vars

\* FairSpec: Spec where the storage read, the waits, the question modal and
\* the background message of every started request eventually complete.
FairSpec == Spec /\ \A h \in Reqs : WF_vars(HandlerStep(h))

\* SignalSpec: one request of the trigger under every signal of the focus
\* tracker (focusin, click, mousedown and its timer, focus-style mutation,
\* poll), the focus leaving the fields, and fields leaving the page.
NextSignals ==
    \/ ClickOpen
    \/ ClickStart(1)
    \/ HandlerStep(1)
    \/ \E w \in pendingWrites : WriteTimer(w)
    \/ ClearTimerFire
    \/ BlurTimer
    \/ \E el \in Elems : handleGlobalFocus(el)
    \/ \E el \in Fields : handleGlobalClick(el)
    \/ \E el \in Fields : handleGlobalMousedown(el)
    \/ \E el \in Fields : MousedownTimer(el)
    \/ \E el \in Fields : focusStyleObserver(el)
    \/ PollTick
    \/ \E to \in {"body", "button"} : FocusLeaves(to)
    \/ \E f \in Fields : RemoveField(f)

SignalSpec == Init /\ [][NextSignals]_vars

\* PressSpec: the 50 ms after the first press on field f1 of a freshly
\* loaded page (full script): the timer of handleGlobalMousedown is armed,
\* no field is active yet, and the other signals arrive before it fires.
InitPress ==
    /\ variant = "full"
    /\ autoDetect \in BOOLEAN
    /\ activeElement = Null
    /\ currentConversationUrl = Null
    /\ isProcessing = FALSE
    /\ button = ButtonIdle
    /\ docFocus = "body"
    /\ attached = Fields
    /\ content = [el \in Elems |-> <<>>]
    /\ hs = [h \in Reqs |-> NoRun]
    /\ clearTimers = <<>>
    /\ opened = <<>>
    /\ pendingWrites = {}
    /\ lastWrite = NoWrite
    /\ notification = NoNotification
    /\ mdTimers = {"f1"}
    /\ dq = DqIdle
    /\ buttonStyle = HiddenStyle
    /\ blurTimers = 0
    /\ initialized = [el \in Elems |-> IF el \in Fields THEN Marked ELSE Unmarked]
    /\ ctx = CtxIdle
    /\ air = AirIdle
    /\ scan = ScanSettled
    /\ focusRun = FocusIdle
    /\ popup = PopupClosed
    /\ grid = GridIdle

NextPress ==
    \/ \E el \in Fields : handleGlobalFocus(el)
    \/ \E el \in Fields : handleGlobalClick(el)
    \/ \E el \in Fields : focusStyleObserver(el)
    \/ PollTick
    \/ \E to \in {"body", "button"} : FocusLeaves(to)
    \/ BlurTimer
    \/ MousedownTimer("f1")

PressSpec == InitPress /\ [][NextPress]_vars

\* --------------------------------------------- one focus event, call by call
\* lines 355-361 (full script only): handleElementFocus dispatches a
\* synthetic focus event on an INPUT, a TEXTAREA or a contenteditable
dispatchesFocus(el) ==
    /\ variant = "full"
    /\ kindOf(el) \in {"text", "search", "textarea", "contenteditable"}

\* lines 359-360: dispatchEvent runs the element's own focus listeners
\* (lines 264, 131, 162), each of them handleElementFocus, before it
\* returns; `room` is the number of frames the call stack still takes
RECURSIVE syntheticFocus(_, _, _)
syntheticFocus(el, listeners, room) ==
    IF listeners = 0 THEN [calls |-> 0, overflow |-> FALSE]
    ELSE IF room = 0 THEN [calls |-> 0, overflow |-> TRUE]
    ELSE LET inner == IF dispatchesFocus(el) THEN syntheticFocus(el, listeners, room - 1)
                      ELSE [calls |-> 0, overflow |-> FALSE]
         IN [calls |-> listeners * (1 + inner.calls), overflow |-> inner.overflow]

\* lines 344-362 (1053-1058): one invocation of handleElementFocus and the
\* invocations it causes
handleElementFocusCalls(el, listeners, room) ==
    LET inner == IF dispatchesFocus(el) THEN syntheticFocus(el, listeners, room - 1)
                 ELSE [calls |-> 0, overflow |-> FALSE]
    IN [calls |-> 1 + inner.calls, overflow |-> inner.overflow]

\* The user moves the focus to el: the focus event runs the element's own
\* listeners, then focusin runs handleGlobalFocus (lines 172-177), each of
\* them with everything handleElementFocus re-enters.
ElementFocus(el) ==
    /\ el \in Focusable
    /\ docFocus # el
    /\ docFocus' = el
    /\ activeElement' = IF matchesFormElements(el) THEN el ELSE activeElement
    /\ buttonStyle' = focusStyle(el)
    /\ blurTimers' = focusBlurs(el)
    /\ LET one == handleElementFocusCalls(el, initialized[el].listeners, MaxStack)
       IN focusRun' = [el |-> el,
                       calls |-> (initialized[el].listeners + 1) * one.calls,
                       overflow |-> one.overflow]
    /\ UNCHANGED <<variant, autoDetect, currentConversationUrl, isProcessing, button,
                   attached, content, hs, clearTimers, opened, pendingWrites,
                   lastWrite, notification, mdTimers, dq,
                   initialized, ctx, air, scan, popup, grid>>

\* A page with the two fields and the two widgets, each either scanned by
\* addFormElementListeners already or not yet.
InitFocus ==
    /\ variant \in Variants
    /\ autoDetect \in BOOLEAN
    /\ activeElement = Null
    /\ currentConversationUrl = Null
    /\ isProcessing = FALSE
    /\ button = ButtonIdle
    /\ docFocus = "body"
    /\ attached = Fields \cup Widgets
    /\ content = [el \in AllElems |-> <<>>]
    /\ hs = [h \in Reqs |-> NoRun]
    /\ clearTimers = <<>>
    /\ opened = <<>>
    /\ pendingWrites = {}
    /\ lastWrite = NoWrite
    /\ notification = NoNotification
    /\ mdTimers = {}
    /\ dq = DqIdle
    /\ buttonStyle = HiddenStyle
    /\ blurTimers = 0
    /\ \E scanned \in SUBSET (Fields \cup Widgets) :
         initialized = [el \in AllElems |-> IF el \in scanned THEN Marked ELSE Unmarked]
    /\ ctx = CtxIdle
    /\ air = AirIdle
    /\ scan = [ScanSettled EXCEPT !.retryPending = TRUE]
    /\ focusRun = FocusIdle
    /\ popup = PopupClosed
    /\ grid = GridIdle

NextFocus ==
    \/ \E el \in Fields \cup Widgets : ElementFocus(el)
    \/ \E to \in {"body", "button"} : FocusLeaves(to)
    \/ BlurTimer

FocusSpec == InitFocus /\ [][NextFocus]_vars

\* FairSignalSpec: SignalSpec where the storage read, the waits, the question
\* modal and the background message of the request eventually complete.
FairSignalSpec == SignalSpec /\ WF_vars(HandlerStep(1))

\* ModalSpec: one request of the trigger whose question modal is operated
\* key by key and button by button.
NextModal ==
    \/ \E el \in Fields : handleGlobalFocus(el)
    \/ ClickStart(1)
    \/ ClickWaitDone(1)
    \/ StorageDone(1)
    \/ \E text \in ModalTexts : ModalInput(1, text)
    \/ \E shift \in BOOLEAN : ModalKeydown(1, "Enter", shift)
    \/ \E which \in {"cancel", "submit"} : ModalClick(1, which)
    \/ CaptureDone(1)
    \/ \E outcome \in Outcomes : Response(1, outcome)
    \/ InsertWaitDone(1)
    \/ \E w \in pendingWrites : WriteTimer(w)
    \/ ClearTimerFire
    \/ BlurTimer

ModalSpec == Init /\ [][NextModal]_vars

\* ------------------------------------------- detectFormQuestion on its own
\* The wrapper chains of a field: up to MaxDepth wrappers, then body and
\* html.  html has no label of its own, and a label under a wrapper is also
\* a label under everything above it.
LabelTexts == {NoText} \cup Texts("H")

AncestorChains ==
    { w \o <<[isBody |-> TRUE, label |-> b], [isBody |-> FALSE, label |-> b]>> :
        <<w, b>> \in
          { p \in (UNION {[1..n -> [isBody : {FALSE}, label : LabelTexts]] :
                            n \in 0..MaxDepth}) \X LabelTexts :
              /\ \A i \in 1..Len(p[1]) :
                   p[1][i].label # NoText =>
                     /\ p[2] # NoText
                     /\ \A j \in i..Len(p[1]) : p[1][j].label # NoText } }

SiblingChains == UNION {[1..n -> Texts("S")] : n \in 0..MaxSib}

DetectInputs ==
    { e \in [hasId : BOOLEAN, labelFor : {NoText} \cup Texts("L"),
             placeholder : Texts("P"), ariaLabel : {NoText} \cup Texts("A"),
             ancestors : AncestorChains, prevSiblings : SiblingChains,
             editable : BOOLEAN, heading : {NoText} \cup Texts("Q")] :
        /\ ~e.hasId => e.labelFor = NoText
        /\ ~e.editable => e.heading = NoText
        \* a label element of the document is a label under body
        /\ e.labelFor # NoText => e.ancestors[Len(e.ancestors)].label # NoText }

InitDetect ==
    /\ variant = "full"
    /\ autoDetect = TRUE
    /\ activeElement = Null
    /\ currentConversationUrl = Null
    /\ isProcessing = FALSE
    /\ button = ButtonIdle
    /\ docFocus = "body"
    /\ attached = Fields
    /\ content = [el \in Elems |-> <<>>]
    /\ hs = [h \in Reqs |-> NoRun]
    /\ clearTimers = <<>>
    /\ opened = <<>>
    /\ pendingWrites = {}
    /\ lastWrite = NoWrite
    /\ notification = NoNotification
    /\ mdTimers = {}
    /\ buttonStyle = HiddenStyle
    /\ blurTimers = 0
    /\ initialized = [el \in Elems |-> IF el \in Fields THEN Marked ELSE Unmarked]
    /\ ctx = CtxIdle
    /\ air = AirIdle
    /\ scan = ScanSettled
    /\ focusRun = FocusIdle
    /\ popup = PopupClosed
    /\ grid = GridIdle
    /\ \E e \in DetectInputs : dq = [phase |-> "input", element |-> e, result |-> <<>>,
                                      searched |-> {}]

\* question = await detectFormQuestion(activeElement), line 486 (1165)
DetectCall ==
    /\ dq.phase = "input"
    /\ dq' = [dq EXCEPT !.phase = "result", !.result = detectFormQuestion(dq.element),
                        !.searched = ancestorsSearched(dq.element)]
    /\ UNCHANGED <<variant, autoDetect, activeElement, currentConversationUrl,
                   isProcessing, button, docFocus, attached, content, hs, clearTimers,
                   opened, pendingWrites, lastWrite, notification, mdTimers,
                   buttonStyle, blurTimers, initialized, ctx, air, scan, focusRun, popup, grid>>

DetectSpec == InitDetect /\ [][DetectCall]_vars

\* ------------------------------------------------------ the detector scans
\* Form elements the page adds after load: to its own document (DocEls) and
\* to the document of a same-origin iframe (FrameEls).
DocEls == {"d1", "d2"}
FrameEls == {"i1", "i2"}
ScanEls == DocEls \cup FrameEls

\* An iframe the script cannot look into, ahead of the same-origin one in
\* document order: none, one whose contentDocument is null, one whose access
\* throws.
BlockedKinds == {"none", "null", "throws"}

\* document.querySelectorAll('iframe'), line 123
framesOf(sc) == (IF sc.blocked = "none" THEN <<>> ELSE <<sc.blocked>>) \o <<"own">>

\* lines 126-145: the body of the inner try for one frame
frameTry(frame, r) ==
    IF frame = "throws" THEN [r EXCEPT !.thrown = TRUE]
    ELSE IF frame = "null" THEN r
    ELSE [r EXCEPT !.init = addFormElementListeners(r.init, attached \cap FrameEls),
                   !.scan.frameObservers = @ + 1]

\* Mutant: the error of one frame leaves the loop.
frameCatchRethrow(r) == r

\* lines 146-149: the inner catch logs and goes on
frameCatch(r) == [r EXCEPT !.thrown = FALSE]

\* lines 124-150: frames.forEach; an error that leaves the callback ends it
RECURSIVE forEachFrame(_, _, _)
forEachFrame(frames, i, r) ==
    IF i > Len(frames) \/ r.thrown THEN r
    ELSE forEachFrame(frames, i + 1, frameCatch(frameTry(frames[i], r)))

\* lines 120-154: handleIframes scans the documents of the iframes it can
\* reach and sets one more observer on each; the outer catch (151-153) keeps
\* whatever is thrown inside
handleIframes(init, sc) ==
    [forEachFrame(framesOf(sc), 1, [init |-> init, scan |-> sc, thrown |-> FALSE])
       EXCEPT !.thrown = FALSE]

\* lines 137-139, 156-170: every observer of the iframe's document runs
\* addFormElementListenersToIframe
RECURSIVE frameObserverScans(_, _, _)
frameObserverScans(init, els, n) ==
    IF n = 0 THEN init
    ELSE frameObserverScans(addFormElementListeners(init, els), els, n - 1)

\* The state init() leaves (lines 87-110): the elements present at load are
\* scanned, the retry is pending, the iframe (if the page has one yet) is
\* observed.
InitScan ==
    /\ variant \in Variants
    /\ autoDetect = TRUE
    /\ activeElement = Null
    /\ currentConversationUrl = Null
    /\ isProcessing = FALSE
    /\ button = ButtonIdle
    /\ docFocus = "body"
    /\ content = [el \in ScanEls |-> <<>>]
    /\ hs = [h \in Reqs |-> NoRun]
    /\ clearTimers = <<>>
    /\ opened = <<>>
    /\ pendingWrites = {}
    /\ lastWrite = NoWrite
    /\ notification = NoNotification
    /\ mdTimers = {}
    /\ dq = DqIdle
    /\ buttonStyle = HiddenStyle
    /\ blurTimers = 0
    /\ ctx = CtxIdle
    /\ air = AirIdle
    /\ focusRun = FocusIdle
    /\ popup = PopupClosed
    /\ grid = GridIdle
    /\ \E atLoad \in SUBSET ScanEls, framed \in BOOLEAN :
         /\ ~framed => atLoad \cap FrameEls = {}
         /\ attached = atLoad
         /\ initialized = [el \in ScanEls |-> IF el \in atLoad THEN Marked ELSE Unmarked]
         /\ scan = [retryPending |-> TRUE, frameObservers |-> IF framed THEN 1 ELSE 0,
                    blocked |-> "none", loaded |-> TRUE, listening |-> TRUE]

\* The page adds a form element to its document; the observer of
\* observePageChanges (lines 272-285) runs addFormElementListeners.
PageAdds(el) ==
    /\ el \in DocEls \ attached
    /\ attached' = attached \cup {el}
    /\ initialized' = addFormElementListeners(initialized, attached' \cap DocEls)
    /\ UNCHANGED <<variant, autoDetect, activeElement, currentConversationUrl,
                   isProcessing, button, docFocus, content, hs, clearTimers, opened,
                   pendingWrites, lastWrite, notification, mdTimers, dq,
                   buttonStyle, blurTimers, ctx, air, scan, focusRun, popup, grid>>

\* The iframe's document gets a form element; its observers (if any) run
\* addFormElementListenersToIframe.
FrameAdds(el) ==
    /\ el \in FrameEls \ attached
    /\ attached' = attached \cup {el}
    /\ initialized' = frameObserverScans(initialized, attached' \cap FrameEls,
                                         scan.frameObservers)
    /\ UNCHANGED <<variant, autoDetect, activeElement, currentConversationUrl,
                   isProcessing, button, docFocus, content, hs, clearTimers, opened,
                   pendingWrites, lastWrite, notification, mdTimers, dq,
                   buttonStyle, blurTimers, ctx, air, scan, focusRun, popup, grid>>

\* The page takes an element out of its document; the element keeps its
\* data attribute and its listeners and may come back.
PageRemoves(el) ==
    /\ el \in ScanEls \cap attached
    /\ attached' = attached \ {el}
    /\ UNCHANGED <<variant, autoDetect, activeElement, currentConversationUrl,
                   isProcessing, button, docFocus, content, hs, clearTimers, opened,
                   pendingWrites, lastWrite, notification, mdTimers, dq,
                   buttonStyle, blurTimers, initialized, ctx, air, scan, focusRun, popup, grid>>

\* lines 112-118: the 1.5 s timer of init fires
retryInitialization ==
    /\ scan.retryPending
    /\ LET scanned == addFormElementListeners(initialized, attached \cap DocEls)
           framed == handleIframes(scanned, [scan EXCEPT !.retryPending = FALSE])
       IN /\ initialized' = framed.init
          /\ scan' = framed.scan
    /\ UNCHANGED <<variant, autoDetect, activeElement, currentConversationUrl,
                   isProcessing, button, docFocus, attached, content, hs, clearTimers,
                   opened, pendingWrites, lastWrite, notification, mdTimers, dq,
                   buttonStyle, blurTimers, ctx, air, focusRun, popup, grid>>

NextScan ==
    \/ \E el \in DocEls : PageAdds(el)
    \/ \E el \in FrameEls : FrameAdds(el)
    \/ \E el \in ScanEls : PageRemoves(el)
    \/ retryInitialization

ScanSpec == InitScan /\ [][NextScan]_vars

\* The page before init() has run: it has the same-origin iframe, possibly
\* behind an iframe the script cannot look into.
InitFrames ==
    /\ variant \in Variants
    /\ autoDetect = TRUE
    /\ activeElement = Null
    /\ currentConversationUrl = Null
    /\ isProcessing = FALSE
    /\ button = ButtonIdle
    /\ docFocus = "body"
    /\ content = [el \in ScanEls |-> <<>>]
    /\ hs = [h \in Reqs |-> NoRun]
    /\ clearTimers = <<>>
    /\ opened = <<>>
    /\ pendingWrites = {}
    /\ lastWrite = NoWrite
    /\ notification = NoNotification
    /\ mdTimers = {}
    /\ dq = DqIdle
    /\ buttonStyle = HiddenStyle
    /\ blurTimers = 0
    /\ ctx = CtxIdle
    /\ air = AirIdle
    /\ attached \in SUBSET ScanEls
    /\ initialized = [el \in ScanEls |-> Unmarked]
    /\ focusRun = FocusIdle
    /\ popup = PopupClosed
    /\ grid = GridIdle
    /\ \E b \in BlockedKinds :
         scan = [retryPending |-> FALSE, frameObservers |-> 0, blocked |-> b,
                 loaded |-> FALSE, listening |-> FALSE]

\* lines 87-110: init() scans the document, arms the retry, handles the
\* iframes and then adds the document-level listeners (103-106), which it
\* reaches only if nothing was thrown before
init ==
    /\ ~scan.loaded
    /\ LET scanned == addFormElementListeners(initialized, attached \cap DocEls)
           framed == handleIframes(scanned, [scan EXCEPT !.loaded = TRUE,
                                                         !.retryPending = TRUE])
       IN /\ initialized' = framed.init
          /\ scan' = [framed.scan EXCEPT !.listening = ~framed.thrown]
    /\ UNCHANGED <<variant, autoDetect, activeElement, currentConversationUrl,
                   isProcessing, button, docFocus, attached, content, hs, clearTimers,
                   opened, pendingWrites, lastWrite, notification, mdTimers, dq,
                   buttonStyle, blurTimers, ctx, air, focusRun, popup, grid>>

NextFrames ==
    \/ init
    \/ \E el \in DocEls : scan.loaded /\ PageAdds(el)
    \/ \E el \in FrameEls : scan.loaded /\ FrameAdds(el)
    \/ \E el \in ScanEls : scan.loaded /\ PageRemoves(el)
    \/ retryInitialization

FramesSpec == InitFrames /\ [][NextFrames]_vars

\* ------------------------------------------------- capturing the page context
\* content.js line 5
maxPageContentLength == 20000
\* Length of "\n\n[Content truncated due to length]" (part_000 line 190,
\* part_001 lines 94 and 137)
MarkerLen == 35
\* part_001 line 14
ThinLength == 100

\* A text is a sequence of runs; the run [s, n] is the first n characters
\* of the string named s.
Run(s, n) == IF n = 0 THEN <<>> ELSE <<[s |-> s, n |-> n]>>

RECURSIVE Length(_)
Length(text) == IF text = <<>> THEN 0 ELSE Head(text).n + Length(Tail(text))

\* text.substring(0, k) for a text whose characters come from one string
RECURSIVE substring0(_, _)
substring0(text, k) ==
    IF text = <<>> \/ k = 0 THEN <<>>
    ELSE IF Head(text).n >= k THEN Run(Head(text).s, k)
    ELSE <<Head(text)>> \o substring0(Tail(text), k - Head(text).n)

Marker == Run("marker", MarkerLen)

\* Mutant: a text of exactly the budget is cut as well.
truncateFromBudget(text) ==
    IF Length(text) >= maxPageContentLength
    THEN substring0(text, maxPageContentLength) \o Marker
    ELSE text

\* part_000 lines 188-191, part_001 lines 92-96 and 135-138
truncate(text) ==
    IF Length(text) > maxPageContentLength
    THEN substring0(text, maxPageContentLength) \o Marker
    ELSE text

\* The two context handlers of the repository: part_000 (screenshot) and
\* part_001 (readability service).
Handlers == {"screenshot", "readability"}

\* part_001 lines 39-55
PrivateIndicators ==
    {"localhost", "127.0.0.1", "file://", "chrome://", "chrome-extension://",
     "admin", "dashboard", "account", "profile", "settings", "internal",
     "signin", "login", "auth", "portal"}

\* The indicators a piece of a URL contains as substrings.
indicatorsIn(piece) ==
    IF piece \in PrivateIndicators THEN {piece}
    ELSE IF piece = "author" THEN {"auth"} ELSE {}

\* part_001 lines 34-59
isPublicWebpage(url) ==
    ~\E indicator \in PrivateIndicators :
        \E i \in DOMAIN url : indicator \in indicatorsIn(url[i])

\* Pages the trigger is used on: window.location.href in pieces, and its length.
Pages ==
    {[href |-> <<"https://", "example.com", "/", "article">>, len |-> 27],
     [href |-> <<"https://", "example.com", "/", "login">>, len |-> 25],
     [href |-> <<"https://", "example.com", "/", "author">>, len |-> 26],
     [href |-> <<"http://", "localhost", "/">>, len |-> 17]}
\* Lengths of document.title
TitleLens == {0, 5}
\* Lengths of the cleaned page content (part_000 line 185)
PageLens == {0, 100, 19999, 20000, 20001, 30000}
\* Lengths of data.markdown (part_001 line 90)
MarkdownLens == {0, 99, 100, 101, 20000, 20001}

\* `# ${document.title}\nURL: ${window.location.href}\n\n`
basicInfo(c) == Run("header", 2 + c.titleLen + 6 + c.hrefLen + 2)

\* part_000 lines 163-200 (part_001 110-147): the scraped content,
\* truncated, behind the title and URL; the minimal text if extraction throws
captureDirectPageContent(c) ==
    IF c.throws THEN Run("minimal", 12 + c.titleLen + 6 + c.hrefLen)
    ELSE basicInfo(c) \o truncate(Run("page", c.pageLen))

\* part_000 lines 46-65: what the captureScreenshot message resolves with
captureScreenshot(reply) ==
    IF reply = "data" THEN [ok |-> TRUE, data |-> "png"]
    ELSE [ok |-> FALSE, data |-> Null]

\* Mutant: a failed screenshot is not caught.
screenshotUncaught(c, shot) ==
    IF shot.ok
    THEN [textContext |-> basicInfo(c) \o Run("form", 40),
          screenshotData |-> shot.data, rejected |-> FALSE, from |-> "shot"]
    ELSE [NoResult EXCEPT !.rejected = TRUE]

\* part_000 lines 13-31: with a screenshot, the form context; without one
\* (the rejection is caught at line 23), the scraped text
screenshotContext(c, shot) ==
    IF shot.ok
    THEN [textContext |-> basicInfo(c) \o Run("form", 40),
          screenshotData |-> shot.data, rejected |-> FALSE, from |-> "shot"]
    ELSE [textContext |-> basicInfo(c) \o captureDirectPageContent(c),
          screenshotData |-> Null, rejected |-> FALSE, from |-> "direct"]

\* part_001 line 23
directContext(c) ==
    [textContext |-> captureDirectPageContent(c), screenshotData |-> Null,
     rejected |-> FALSE, from |-> "direct"]

\* part_001 lines 83-99: what captureWithJina resolves with
captureWithJina(reply, len) ==
    IF reply = "markdown" /\ len > 0
    THEN [ok |-> TRUE, text |-> truncate(Run("markdown", len))]
    ELSE [ok |-> FALSE, text |-> <<>>]

\* part_001 lines 13-23
jinaContext(c, jina) ==
    IF jina.ok /\ Length(jina.text) > ThinLength
    THEN [textContext |-> jina.text, screenshotData |-> Null, rejected |-> FALSE,
          from |-> "jina"]
    ELSE directContext(c)

\* part_001 line 71: fetch(`${CONTEXT_CONFIG.r_jina_api}/reader`); without
\* the key (content.js lines 4-7 have none) the address "undefined/reader"
\* is resolved against the page
fetchTarget(jinaApi) == IF jinaApi = "undefined" THEN "page-origin" ELSE jinaApi

\* The handler of the trigger is suspended at content.js line 505.
InitCapture ==
    /\ variant = "full"
    /\ autoDetect = TRUE
    /\ activeElement = "f1"
    /\ currentConversationUrl = Null
    /\ isProcessing = TRUE
    /\ button = ButtonProcessing
    /\ docFocus = "button"
    /\ attached = Fields
    /\ content = [el \in Elems |-> <<>>]
    /\ hs = [h \in Reqs |-> IF h = 1 THEN [pc |-> "capture", origin |-> "f1",
                                             question |-> <<"P">>]
                             ELSE NoRun]
    /\ clearTimers = <<>>
    /\ opened = <<>>
    /\ pendingWrites = {}
    /\ lastWrite = NoWrite
    /\ notification = NoNotification
    /\ mdTimers = {}
    /\ dq = DqIdle
    /\ buttonStyle = positionClaudeButton(HiddenStyle, "f1")
    /\ blurTimers = 0
    /\ initialized = [el \in Elems |-> IF el \in Fields THEN Marked ELSE Unmarked]
    /\ ctx = CtxIdle
    /\ air = AirIdle
    /\ scan = ScanSettled
    /\ focusRun = FocusIdle
    /\ popup = PopupClosed
    /\ grid = GridIdle

\* capturePageContext is called (content.js line 505) and runs to its first
\* await: the captureScreenshot message (part_000 lines 14, 49-50), the
\* fetch (part_001 lines 10-13, 68-81), or no await at all (part_001 line 23)
CaptureStart(handler, page, titleLen, pageLen, throws, jinaApi) ==
    /\ ctx.phase = "none"
    /\ hs[1].pc = "capture"
    /\ LET c == [ctx EXCEPT !.handler = handler, !.url = page.href,
                            !.hrefLen = page.len, !.titleLen = titleLen,
                            !.pageLen = pageLen, !.throws = throws,
                            !.jinaApi = IF handler = "readability" THEN jinaApi
                                        ELSE "none"]
       IN ctx' =
            IF handler = "screenshot"
            THEN [c EXCEPT !.phase = "shot",
                           !.sent = {[to |-> "background", data |-> "captureScreenshot"]}]
            ELSE IF isPublicWebpage(page.href)
            THEN [c EXCEPT !.phase = "jina",
                           !.sent = {[to |-> fetchTarget(jinaApi), data |-> "url"]}]
            ELSE [c EXCEPT !.phase = "done", !.result = directContext(c)]
    /\ UNCHANGED <<variant, autoDetect, activeElement, currentConversationUrl,
                   isProcessing, button, docFocus, attached, content, hs, clearTimers,
                   opened, pendingWrites, lastWrite, notification, mdTimers, dq,
                   buttonStyle, blurTimers, initialized, air, scan, focusRun, popup, grid>>

\* part_000 lines 51-62, 14-31: the background answers the screenshot message
ScreenshotReply(reply) ==
    /\ ctx.phase = "shot"
    /\ reply \in {"lasterror", "nodata", "data"}
    /\ ctx' = [ctx EXCEPT !.phase = "done", !.reply = reply,
                          !.result = screenshotContext(ctx, captureScreenshot(reply))]
    /\ UNCHANGED <<variant, autoDetect, activeElement, currentConversationUrl,
                   isProcessing, button, docFocus, attached, content, hs, clearTimers,
                   opened, pendingWrites, lastWrite, notification, mdTimers, dq,
                   buttonStyle, blurTimers, initialized, air, scan, focusRun, popup, grid>>

\* part_001 lines 83-103, 14-23: the fetch fails, answers with an error
\* status, without markdown, or with markdown of length len
JinaReply(reply, len) ==
    /\ ctx.phase = "jina"
    /\ reply \in {"neterror", "notok", "nomarkdown", "markdown"}
    /\ reply = "markdown" <=> len > 0
    /\ ctx' = [ctx EXCEPT !.phase = "done", !.reply = reply, !.replyLen = len,
                          !.result = jinaContext(ctx, captureWithJina(reply, len))]
    /\ UNCHANGED <<variant, autoDetect, activeElement, currentConversationUrl,
                   isProcessing, button, docFocus, attached, content, hs, clearTimers,
                   opened, pendingWrites, lastWrite, notification, mdTimers, dq,
                   buttonStyle, blurTimers, initialized, air, scan, focusRun, popup, grid>>

\* content.js lines 505-519: the await of capturePageContext ends and the
\* askClaude message leaves with the context; a rejection would reach the
\* catch block (lines 543-545) and the finally block
CaptureReturn ==
    /\ ctx.phase = "done"
    /\ hs[1].pc = "capture"
    /\ IF ctx.result.rejected
       THEN /\ hs' = [hs EXCEPT ![1] = DoneRun]
            /\ ctx' = [ctx EXCEPT !.phase = "returned"]
            /\ notification' = [req |-> 1, text |-> "error"]
            /\ isProcessing' = finallyProcessing(isProcessing)
            /\ button' = finallyButton(button)
            /\ clearTimers' = finallyTimers(1)
       ELSE /\ hs' = [hs EXCEPT ![1] = sendAskClaude(@, @.question)]
            /\ ctx' = [ctx EXCEPT !.phase = "returned",
                                  !.sent = @ \cup {[to |-> "background", data |-> "askClaude"]}]
            /\ UNCHANGED <<notification, isProcessing, button, clearTimers, focusRun, popup, grid>>
    /\ UNCHANGED <<variant, autoDetect, activeElement, currentConversationUrl,
                   docFocus, attached, content, opened, pendingWrites, lastWrite,
                   mdTimers, dq, buttonStyle, blurTimers, initialized, air, scan, focusRun, popup, grid>>

\* CaptureSpec: one capturePageContext call of either context handler, for
\* every page, content length, and answer of the background or the service.
NextCapture ==
    \/ \E handler \in Handlers, page \in Pages, titleLen \in TitleLens,
          pageLen \in PageLens, throws \in BOOLEAN,
          jinaApi \in {"undefined", "r.jina.ai"} :
          CaptureStart(handler, page, titleLen, pageLen, throws, jinaApi)
    \/ \E reply \in {"lasterror", "nodata", "data"} : ScreenshotReply(reply)
    \/ \E reply \in {"neterror", "notok", "nomarkdown", "markdown"},
          len \in MarkdownLens : JinaReply(reply, len)
    \/ CaptureReturn

CaptureSpec == InitCapture /\ [][NextCapture]_vars

\* ------------------------------------------------------- cleanPageContent
\* part_000 line 358 (part_001 line 305)
ShortLine == 10

\* Extracted content is a sequence of stretches; the stretch [c, n] is the
\* character c repeated n times, and neighbouring stretches differ in c.
RECURSIVE mergeStretches(_)
mergeStretches(text) ==
    IF Len(text) < 2 THEN text
    ELSE IF text[1].c = text[2].c
         THEN mergeStretches(<<[c |-> text[1].c, n |-> text[1].n + text[2].n]>>
                             \o SubSeq(text, 3, Len(text)))
         ELSE <<text[1]>> \o mergeStretches(Tail(text))

\* content.replace(/c{min,}/g, c repeated `to` times)
squeeze(text, ch, min, to) ==
    [i \in DOMAIN text |->
       IF text[i].c = ch /\ text[i].n >= min THEN [c |-> ch, n |-> to] ELSE text[i]]

\* The characters of [\u0000-\u001F\u007F-\u009F] that occur in the
\* content: the line feed is U+000A.
ControlChars == {LF}

IsControl(stretch) == stretch.c \in ControlChars
NotControl(stretch) == ~IsControl(stretch)

\* part_000 line 355: cleaned.replace(/[\u0000-\u001F\u007F-\u009F]/g, '')
stripControl(text) == mergeStretches(SelectSeq(text, NotControl))

\* cleaned.split('\n')
RECURSIVE splitLines(_)
splitLines(text) ==
    IF text = <<>> THEN << <<>> >>
    ELSE IF Head(text).c = LF
         THEN << <<>> >> \o
              splitLines(IF Head(text).n = 1 THEN Tail(text)
                         ELSE <<[c |-> LF, n |-> Head(text).n - 1]>> \o Tail(text))
         ELSE LET rest == splitLines(Tail(text))
              IN << <<Head(text)>> \o Head(rest) >> \o Tail(rest)

\* line.trim()
lineTrim(line) ==
    LET a == IF line # <<>> /\ Head(line).c = SP THEN Tail(line) ELSE line
    IN IF a # <<>> /\ a[Len(a)].c = SP THEN SubSeq(a, 1, Len(a) - 1) ELSE a

\* part_000 line 358: line.trim().length > 10 || line.trim() === ''
keepLine(line) ==
    Length(lineTrim(line)) > ShortLine \/ lineTrim(line) = <<>>

\* lines.join('\n')
RECURSIVE joinLines(_)
joinLines(lines) ==
    IF lines = <<>> THEN <<>>
    ELSE IF Len(lines) = 1 THEN lines[1]
    ELSE mergeStretches(lines[1] \o <<[c |-> LF, n |-> 1]>> \o joinLines(Tail(lines)))

\* part_000 lines 346-361 (part_001 293-308)
cleanPageContent(text) ==
    joinLines(SelectSeq(splitLines(stripControl(
        squeeze(squeeze(text, LF, 3, 2), SP, 2, 1))), keepLine))

\* A line of extracted text: `lead` blanks, then `n` times the letter c.
lineOf(lead, c, n) ==
    (IF lead = 0 THEN <<>> ELSE <<[c |-> SP, n |-> lead]>>)
    \o (IF n = 0 THEN <<>> ELSE <<[c |-> c, n |-> n]>>)

\* Lengths of the lines, blanks in front of them, line feeds between them.
LineLens == {0, 3, 10, 11}
LeadLens == {0, 2}
BreakLens == {1, 3}

\* What the extraction hands to cleanPageContent: one line, or two lines
\* with one or three line feeds between them.
RawContents ==
    {lineOf(l, "a", n) : l \in LeadLens, n \in LineLens}
    \cup {lineOf(l1, "a", n1) \o <<[c |-> LF, n |-> b]>> \o lineOf(l2, "b", n2) :
            <<l1, n1, b, l2, n2>> \in
              LeadLens \X LineLens \X BreakLens \X LeadLens \X LineLens}

InitClean ==
    /\ variant = "full"
    /\ autoDetect = TRUE
    /\ activeElement = Null
    /\ currentConversationUrl = Null
    /\ isProcessing = FALSE
    /\ button = ButtonIdle
    /\ docFocus = "body"
    /\ attached = Fields
    /\ content = [el \in Elems |-> <<>>]
    /\ hs = [h \in Reqs |-> NoRun]
    /\ clearTimers = <<>>
    /\ opened = <<>>
    /\ pendingWrites = {}
    /\ lastWrite = NoWrite
    /\ notification = NoNotification
    /\ mdTimers = {}
    /\ dq = DqIdle
    /\ buttonStyle = HiddenStyle
    /\ blurTimers = 0
    /\ initialized = [el \in Elems |-> IF el \in Fields THEN Marked ELSE Unmarked]
    /\ air = AirIdle
    /\ scan = ScanSettled
    /\ focusRun = FocusIdle
    /\ popup = PopupClosed
    /\ grid = GridIdle
    /\ \E raw \in RawContents : ctx = [CtxIdle EXCEPT !.phase = "extracted", !.raw = raw]

\* part_000 line 185 (part_001 line 132): pageContent = cleanPageContent(pageContent)
CleanCall ==
    /\ ctx.phase = "extracted"
    /\ ctx' = [ctx EXCEPT !.phase = "cleaned", !.cleaned = cleanPageContent(ctx.raw)]
    /\ UNCHANGED <<variant, autoDetect, activeElement, currentConversationUrl,
                   isProcessing, button, docFocus, attached, content, hs, clearTimers,
                   opened, pendingWrites, lastWrite, notification, mdTimers, dq,
                   buttonStyle, blurTimers, initialized, air, scan, focusRun, popup, grid>>

CleanSpec == InitClean /\ [][CleanCall]_vars

\* ----------------------------------------------- generateConversationTitle
\* part_000 lines 416, 419 and 423 (part_001 354, 357, 361)
TitleMax == 50
SentenceWindow == 60
TitleCut == 47

\* /[#*_~`]/ (line 413): of these the questions carry '#' and '*'
MarkdownChars == {"#", "*"}
\* /[.!?]/ (line 418)
SentenceEnds == {".", "!", "?"}

NotMarkdown(stretch) == stretch.c \notin MarkdownChars

\* title.match(/[.!?]/).index: characters before the first sentence end,
\* -1 for no match
RECURSIVE sentenceEndIndex(_, _)
sentenceEndIndex(text, before) ==
    IF text = <<>> THEN -1
    ELSE IF Head(text).c \in SentenceEnds THEN before
    ELSE sentenceEndIndex(Tail(text), before + Head(text).n)

\* title.substring(0, k)
RECURSIVE stretchPrefix(_, _)
stretchPrefix(text, k) ==
    IF text = <<>> \/ k <= 0 THEN <<>>
    ELSE IF Head(text).n >= k THEN <<[c |-> Head(text).c, n |-> k]>>
    ELSE <<Head(text)>> \o stretchPrefix(Tail(text), k - Head(text).n)

\* line 419: sentenceEnd && sentenceEnd.index < 60
sentenceTaken(index) == index >= 0 /\ index < SentenceWindow

\* part_000 lines 407-433 (part_001 345-371): the part of the title after
\* 'Form: '
generateConversationTitle(question) ==
    LET title == mergeStretches(SelectSeq(lineTrim(question), NotMarkdown))
        index == sentenceEndIndex(title, 0)
    IN IF Length(title) > TitleMax
       THEN IF sentenceTaken(index) THEN stretchPrefix(title, index + 1)
            ELSE mergeStretches(stretchPrefix(title, TitleCut) \o <<[c |-> ".", n |-> 3]>>)
       ELSE title

\* Questions: blanks, a heading mark, letters, a sentence end and more
\* letters, each part possibly missing.
QuestionLeads == {0, 1}
QuestionMarks == {0, 2}
QuestionHeads == {10, 46, 49, 50, 55, 59, 60}
QuestionEnds == {"", ".", "?"}
QuestionTails == {0, 5, 20}

questionOf(lead, marks, head, end, tail) ==
    (IF lead = 0 THEN <<>> ELSE <<[c |-> SP, n |-> lead]>>)
    \o (IF marks = 0 THEN <<>> ELSE <<[c |-> "#", n |-> marks]>>)
    \o <<[c |-> "a", n |-> head]>>
    \o (IF end = "" THEN <<>> ELSE <<[c |-> end, n |-> 1]>>)
    \o (IF tail = 0 THEN <<>> ELSE <<[c |-> "b", n |-> tail]>>)

Questions ==
    {questionOf(q[1], q[2], q[3], q[4], q[5]) :
       q \in QuestionLeads \X QuestionMarks \X QuestionHeads \X QuestionEnds
             \X QuestionTails}

InitTitle ==
    /\ variant = "full"
    /\ autoDetect = TRUE
    /\ activeElement = Null
    /\ currentConversationUrl = Null
    /\ isProcessing = FALSE
    /\ button = ButtonIdle
    /\ docFocus = "body"
    /\ attached = Fields
    /\ content = [el \in Elems |-> <<>>]
    /\ hs = [h \in Reqs |-> NoRun]
    /\ clearTimers = <<>>
    /\ opened = <<>>
    /\ pendingWrites = {}
    /\ lastWrite = NoWrite
    /\ notification = NoNotification
    /\ mdTimers = {}
    /\ dq = DqIdle
    /\ buttonStyle = HiddenStyle
    /\ blurTimers = 0
    /\ initialized = [el \in Elems |-> IF el \in Fields THEN Marked ELSE Unmarked]
    /\ air = AirIdle
    /\ scan = ScanSettled
    /\ focusRun = FocusIdle
    /\ popup = PopupClosed
    /\ grid = GridIdle
    /\ \E q \in Questions : ctx = [CtxIdle EXCEPT !.phase = "asked", !.question = q]

\* content.js line 508: conversationTitle = generateConversationTitle(question)
TitleCall ==
    /\ ctx.phase = "asked"
    /\ ctx' = [ctx EXCEPT !.phase = "titled",
                          !.title = generateConversationTitle(ctx.question)]
    /\ UNCHANGED <<variant, autoDetect, activeElement, currentConversationUrl,
                   isProcessing, button, docFocus, attached, content, hs, clearTimers,
                   opened, pendingWrites, lastWrite, notification, mdTimers, dq,
                   buttonStyle, blurTimers, initialized, air, scan, focusRun, popup, grid>>

TitleSpec == InitTitle /\ [][TitleCall]_vars

\* ------------------------------------------------------- the Airtable path
\* Answers the backend may return on the Airtable page: plain text, text
\* with an ampersand, text with a line break.
AirAnswers == {<<"a">>, <<"a", AMP>>, <<"a", LF>>}

\* The page of an Airtable base once init() has run: both cell editors are
\* in the document and carry their listeners.
InitAirtable ==
    /\ variant \in Variants
    /\ autoDetect = TRUE
    /\ activeElement = Null
    /\ currentConversationUrl = Null
    /\ isProcessing = FALSE
    /\ button = ButtonIdle
    /\ docFocus = "body"
    /\ attached = Cells
    /\ content = [el \in AirElems |-> <<>>]
    /\ hs = [h \in Reqs |-> NoRun]
    /\ clearTimers = <<>>
    /\ opened = <<>>
    /\ pendingWrites = {}
    /\ lastWrite = NoWrite
    /\ notification = NoNotification
    /\ mdTimers = {}
    /\ dq = DqIdle
    /\ buttonStyle = HiddenStyle
    /\ blurTimers = 0
    /\ initialized = [el \in AirElems |-> IF el \in Cells THEN Marked ELSE Unmarked]
    /\ ctx = CtxIdle
    /\ air = AirIdle
    /\ scan = ScanSettled
    /\ focusRun = FocusIdle
    /\ popup = PopupClosed
    /\ grid = GridIdle

\* airtable-handler.js lines 111-145 and content.js lines 36-44 (829-837):
\* the user clicks the button of a cell whose editor is `el` (null for a
\* cell without an editor); the click may take the focus to that button;
\* the listener stores the element and asks for the settings.
AirtableRequest(r, el, question, takesFocus) ==
    /\ air[r].pc = "idle"
    /\ IF r = 1 THEN TRUE ELSE air[r - 1].pc # "idle"
    /\ el \in (Cells \cap attached) \cup {Null}
    /\ activeElement' = el
    /\ docFocus' = IF takesFocus THEN "cellbutton" ELSE docFocus
    /\ blurTimers' = IF takesFocus /\ docFocus # "cellbutton"
                     THEN blurOn(docFocus) ELSE blurTimers
    /\ air' = [air EXCEPT ![r] = [pc |-> "storage", element |-> el,
                                  question |-> question, answer |-> <<>>]]
    /\ UNCHANGED <<variant, autoDetect, currentConversationUrl, isProcessing, button,
                   attached, content, hs, clearTimers, opened, pendingWrites,
                   lastWrite, notification, mdTimers, dq,
                   buttonStyle, initialized, ctx, scan, focusRun, popup, grid>>

\* lines 46-64 (839-857): the settings arrive; without a question the modal
\* of promptForQuestion opens (lines 629-650), otherwise the notification
\* is shown and the askClaude message leaves
AirStorageDone(r) ==
    /\ air[r].pc = "storage"
    /\ IF ~air[r].question
       THEN /\ air' = [air EXCEPT ![r].pc = "modal"]
            /\ attached' = attached \cup {AirTaOf(r)}
            /\ docFocus' = AirTaOf(r)
            /\ activeElement' = AirTaOf(r)
            /\ buttonStyle' = positionClaudeButton(buttonStyle, AirTaOf(r))
            /\ blurTimers' = blurOn(docFocus)
            /\ initialized' = addFormElementListeners(initialized, attached')
            /\ UNCHANGED notification
       ELSE /\ air' = [air EXCEPT ![r].pc = "waiting"]
            /\ notification' = [req |-> r, text |-> "asking"]
            /\ UNCHANGED <<attached, docFocus, activeElement, buttonStyle,
                           blurTimers, initialized, focusRun, popup, grid>>
    /\ UNCHANGED <<variant, autoDetect, currentConversationUrl, isProcessing, button,
                   content, hs, clearTimers, opened, pendingWrites, lastWrite,
                   mdTimers, dq, ctx, scan, focusRun, popup, grid>>

\* lines 652-675, then 52-64 (845-857): the modal resolves; an empty
\* question ends the listener
AirModalResolve(r, cancel, text) ==
    /\ air[r].pc = "modal"
    /\ attached' = attached \ {AirTaOf(r)}
    /\ docFocus' = "body"
    /\ blurTimers' = blurOn(AirTaOf(r))
    /\ initialized' = [initialized EXCEPT ![AirTaOf(r)] = Unmarked]
    /\ IF ~Truthy(modalAnswer(cancel, text))
       THEN /\ air' = [air EXCEPT ![r].pc = "done"]
            /\ UNCHANGED notification
       ELSE /\ air' = [air EXCEPT ![r].pc = "waiting"]
            /\ notification' = [req |-> r, text |-> "asking"]
    /\ UNCHANGED <<variant, autoDetect, activeElement, currentConversationUrl,
                   isProcessing, button, content, hs, clearTimers, opened,
                   pendingWrites, lastWrite, mdTimers, dq,
                   buttonStyle, ctx, scan, focusRun, popup, grid>>

\* airtable-handler.js lines 158-165: the events of the response listener
responseReadyEvents(el) ==
    IF kindOf(el) \in {"textarea", "text"} THEN <<"set", "input", "change">>
    ELSE <<"set", "input">>

\* airtable-handler.js lines 153-167: the claude-response-ready listener
responseReady(cont, el, answer) ==
    IF el = Null \/ answer = <<>> THEN cont
    ELSE [cont EXCEPT ![el] = storedForm(el, answer)]

\* lines 66-84 (859-877): the response of the backend arrives; with an
\* answer the listener dispatches claude-response-ready and then calls
\* insertTextIntoElement, which writes after 50 ms (full script) or at once
AirResponse(r, outcome, answer) ==
    /\ air[r].pc = "waiting"
    /\ LET el == air[r].element IN
       IF outcome \in {"rejected", "noanswer"}
       THEN /\ air' = [air EXCEPT ![r].pc = "done"]
            /\ notification' = [req |-> r, text |-> failureNotice(outcome)]
            /\ UNCHANGED <<content, lastWrite, pendingWrites, docFocus,
                           activeElement, buttonStyle, blurTimers, focusRun, popup, grid>>
       ELSE /\ air' = [air EXCEPT ![r].pc = "done", ![r].answer = answer]
            /\ UNCHANGED notification
            /\ IF el = Null
               THEN UNCHANGED <<content, lastWrite, pendingWrites, docFocus,
                                activeElement, buttonStyle, blurTimers, focusRun, popup, grid>>
               ELSE /\ docFocus' = focusResult(el)
                    /\ activeElement' = focusActive(el)
                    /\ buttonStyle' = focusStyle(el)
                    /\ blurTimers' = focusBlurs(el)
                    /\ IF variant = "full"
                       THEN /\ content' = responseReady(content, el, answer)
                            /\ lastWrite' = [WriteRecord(r, el, el, answer) EXCEPT
                                               !.events = responseReadyEvents(el)]
                            /\ pendingWrites' = pendingWrites \cup
                                  {[req |-> r, el |-> el, text |-> answer,
                                    origin |-> el]}
                       ELSE /\ content' = writeInto(responseReady(content, el, answer),
                                                     el, answer)
                            /\ lastWrite' = WriteRecord(r, el, el, answer)
                            /\ UNCHANGED pendingWrites
    /\ UNCHANGED <<variant, autoDetect, currentConversationUrl, isProcessing, button,
                   attached, hs, clearTimers, opened, mdTimers, dq,
                   initialized, ctx, scan, focusRun, popup, grid>>

\* AirtableSpec: up to MaxAir requests from the cell buttons of an Airtable
\* page, their delayed writes, the blur timers, and the focus moving
\* between the cell editors.
NextAirtable ==
    \/ \E r \in AirReqs, el \in Cells \cup {Null}, question \in BOOLEAN,
          takesFocus \in BOOLEAN : AirtableRequest(r, el, question, takesFocus)
    \/ \E r \in AirReqs : AirStorageDone(r)
    \/ \E r \in AirReqs, cancel \in BOOLEAN, text \in ModalTexts :
          AirModalResolve(r, cancel, text)
    \/ \E r \in AirReqs, outcome \in Outcomes, answer \in AirAnswers :
          AirResponse(r, outcome, answer)
    \/ \E w \in pendingWrites : WriteTimer(w)
    \/ BlurTimer
    \/ \E el \in Cells : handleGlobalFocus(el)

AirtableSpec == InitAirtable /\ [][NextAirtable]_vars

\* ------------------------------------------- the buttons in Airtable cells
\* Elements the selectors of lines 49 and 87 match, in document order: k1 is
\* a .cellContainer, k2 a .cell inside k1, k3 a .cell of its own.
GridCells == <<"k1", "k2", "k3">>
GridSet == {GridCells[i] : i \in DOMAIN GridCells}
containerOf(cell) == IF cell = "k2" THEN "k1" ELSE Null
within(cell) == {c \in GridSet : c = cell \/ containerOf(c) = cell}

RECURSIVE sumButtons(_, _)
sumButtons(buttons, cells) ==
    IF cells = {} THEN 0
    ELSE LET c == CHOOSE x \in cells : TRUE
         IN buttons[c] + sumButtons(buttons, cells \ {c})

\* cell.querySelectorAll('.claude-airtable-button').length: the buttons
\* among the descendants of the cell
buttonsIn(g, cell) == sumButtons(g.buttons, within(cell) \cap g.present)

\* lines 50-52 (68-70, 88-90) and addButtonToCell, 94-150: the button is
\* appended unless the cell has one among its descendants; appending queues
\* a childList record for the observer (a record beyond MaxRecords merges
\* with the queued ones: handling a childList record twice in a row changes
\* nothing the second time)
inject(g, cell) ==
    IF buttonsIn(g, cell) = 0
    THEN [g EXCEPT !.buttons[cell] = @ + 1,
                   !.records = IF Len(@) < MaxRecords THEN Append(@, "childList") ELSE @]
    ELSE g

\* querySelectorAll(...).forEach over the matching cells, in document order
RECURSIVE injectEach(_, _, _)
injectEach(g, cells, i) ==
    IF i > Len(GridCells) THEN g
    ELSE injectEach(IF GridCells[i] \in cells THEN inject(g, GridCells[i]) ELSE g,
                    cells, i + 1)

\* lines 45-74: one mutation record
observeRecord(g, rec) ==
    IF rec = "childList" THEN injectEach(g, g.present, 1)
    ELSE IF rec \in g.present \cap g.focused THEN inject(g, rec)
    ELSE g

\* An Airtable page whose grid is not rendered yet.
InitGrid ==
    /\ variant \in Variants
    /\ autoDetect \in BOOLEAN
    /\ activeElement = Null
    /\ currentConversationUrl = Null
    /\ isProcessing = FALSE
    /\ button = ButtonIdle
    /\ docFocus = "body"
    /\ attached = Fields
    /\ content = [el \in Elems |-> <<>>]
    /\ hs = [h \in Reqs |-> NoRun]
    /\ clearTimers = <<>>
    /\ opened = <<>>
    /\ pendingWrites = {}
    /\ lastWrite = NoWrite
    /\ notification = NoNotification
    /\ mdTimers = {}
    /\ dq = DqIdle
    /\ buttonStyle = HiddenStyle
    /\ blurTimers = 0
    /\ initialized = [el \in Elems |-> IF el \in Fields THEN Marked ELSE Unmarked]
    /\ ctx = CtxIdle
    /\ air = AirIdle
    /\ scan = ScanSettled
    /\ focusRun = FocusIdle
    /\ popup = PopupClosed
    /\ grid = [present |-> {}, focused |-> {}, buttons |-> [c \in GridSet |-> 0],
               records |-> <<>>]

\* The page renders cells: one childList record. A cell inside a container
\* comes with its container or after it.
GridAdds(cells) ==
    /\ cells # {}
    /\ cells \cap grid.present = {}
    /\ \A c \in cells : containerOf(c) = Null \/ containerOf(c) \in cells \cup grid.present
    /\ Len(grid.records) < MaxRecords
    /\ grid' = [grid EXCEPT !.present = @ \cup cells,
                            !.records = Append(@, "childList")]
    /\ UNCHANGED <<variant, autoDetect, activeElement, currentConversationUrl,
                   isProcessing, button, docFocus, attached, content, hs, clearTimers,
                   opened, pendingWrites, lastWrite, notification, mdTimers, dq,
                   buttonStyle, blurTimers, initialized, ctx, air, scan, focusRun, popup>>

\* The page gives a cell a focus class: one attributes record with the cell
\* as target.
GridFocuses(cell) ==
    /\ cell \in grid.present \ grid.focused
    /\ Len(grid.records) < MaxRecords
    /\ grid' = [grid EXCEPT !.focused = @ \cup {cell}, !.records = Append(@, cell)]
    /\ UNCHANGED <<variant, autoDetect, activeElement, currentConversationUrl,
                   isProcessing, button, docFocus, attached, content, hs, clearTimers,
                   opened, pendingWrites, lastWrite, notification, mdTimers, dq,
                   buttonStyle, blurTimers, initialized, ctx, air, scan, focusRun, popup>>

\* lines 44-75: the observer's callback takes the oldest queued record
ObserverRuns ==
    /\ grid.records # <<>>
    /\ grid' = observeRecord([grid EXCEPT !.records = Tail(@)], Head(grid.records))
    /\ UNCHANGED <<variant, autoDetect, activeElement, currentConversationUrl,
                   isProcessing, button, docFocus, attached, content, hs, clearTimers,
                   opened, pendingWrites, lastWrite, notification, mdTimers, dq,
                   buttonStyle, blurTimers, initialized, ctx, air, scan, focusRun, popup>>

\* lines 86-92: the 1 s interval looks at the focused cells
GridPoll ==
    /\ \E c \in grid.present \cap grid.focused : buttonsIn(grid, c) = 0
    /\ grid' = injectEach(grid, grid.present \cap grid.focused, 1)
    /\ UNCHANGED <<variant, autoDetect, activeElement, currentConversationUrl,
                   isProcessing, button, docFocus, attached, content, hs, clearTimers,
                   opened, pendingWrites, lastWrite, notification, mdTimers, dq,
                   buttonStyle, blurTimers, initialized, ctx, air, scan, focusRun, popup>>

NextGrid ==
    \/ \E cells \in SUBSET GridSet : GridAdds(cells)
    \/ \E cell \in GridSet : GridFocuses(cell)
    \/ ObserverRuns
    \/ GridPoll

GridSpec == InitGrid /\ [][NextGrid]_vars

\* ------------------------------------------------------ the settings popup
\* What the background returns for getProjects: no project, one, two.
ProjectLists == {<<>>, <<"p1">>, <<"p1", "p2">>}

Range(s) == {s[i] : i \in DOMAIN s}
RemoveAt(s, i) == SubSeq(s, 1, i - 1) \o SubSeq(s, i + 1, Len(s))

\* `select.value = v`: the option with that value becomes the selected one;
\* without such an option none is selected and the value reads ''.
selectValue(options, v) == IF v \in Range(options) THEN v ELSE ""

\* `select.innerHTML = '<option value="v">'` (lines 1486, 1514, 1518): the
\* only option is the selected one
onlyOption(pp, v) == [pp EXCEPT !.options = <<v>>, !.value = v]

\* lines 1484-1488: fetchProjects up to its first await (the refresh button,
\* or checkLoginStatus when the user is logged in)
fetchProjects ==
    /\ Len(popup.fetches) < MaxFetch
    /\ popup' = [onlyOption(popup, "loading") EXCEPT !.fetches = Append(@, "projects")]
    /\ UNCHANGED <<variant, autoDetect, activeElement, currentConversationUrl,
                   isProcessing, button, docFocus, attached, content, hs, clearTimers,
                   opened, pendingWrites, lastWrite, notification, mdTimers, dq,
                   buttonStyle, blurTimers, initialized, ctx, air, scan, focusRun, grid>>

\* lines 1488-1519: the getProjects message is answered (a list) or rejected
ProjectsReply(i, rejected, projects) ==
    /\ i \in DOMAIN popup.fetches
    /\ popup.fetches[i] = "projects"
    /\ popup' =
         IF rejected
         THEN [onlyOption(popup, "error") EXCEPT !.fetches = RemoveAt(@, i)]
         ELSE IF Len(projects) > 0
         THEN [popup EXCEPT !.options = <<"default">> \o projects,
                            !.value = "default",
                            !.fetches[i] = "storage"]
         ELSE [onlyOption(popup, "none") EXCEPT !.fetches = RemoveAt(@, i)]
    /\ UNCHANGED <<variant, autoDetect, activeElement, currentConversationUrl,
                   isProcessing, button, docFocus, attached, content, hs, clearTimers,
                   opened, pendingWrites, lastWrite, notification, mdTimers, dq,
                   buttonStyle, blurTimers, initialized, ctx, air, scan, focusRun, grid>>

\* lines 1508-1512: the saved project is selected again
SettingsRead(i) ==
    /\ i \in DOMAIN popup.fetches
    /\ popup.fetches[i] = "storage"
    /\ popup' = [popup EXCEPT
                   !.value = IF popup.defaultProject \notin {Null, ""}
                             THEN selectValue(popup.options, popup.defaultProject)
                             ELSE @,
                   !.fetches = RemoveAt(@, i)]
    /\ UNCHANGED <<variant, autoDetect, activeElement, currentConversationUrl,
                   isProcessing, button, docFocus, attached, content, hs, clearTimers,
                   opened, pendingWrites, lastWrite, notification, mdTimers, dq,
                   buttonStyle, blurTimers, initialized, ctx, air, scan, focusRun, grid>>

\* The user picks an option of the select.
UserSelects(v) ==
    /\ v \in Range(popup.options)
    /\ v # popup.value
    /\ popup' = [popup EXCEPT !.value = v]
    /\ UNCHANGED <<variant, autoDetect, activeElement, currentConversationUrl,
                   isProcessing, button, docFocus, attached, content, hs, clearTimers,
                   opened, pendingWrites, lastWrite, notification, mdTimers, dq,
                   buttonStyle, blurTimers, initialized, ctx, air, scan, focusRun, grid>>

\* The user toggles the auto-detect checkbox.
UserToggles ==
    /\ popup' = [popup EXCEPT !.checked = ~@]
    /\ UNCHANGED <<variant, autoDetect, activeElement, currentConversationUrl,
                   isProcessing, button, docFocus, attached, content, hs, clearTimers,
                   opened, pendingWrites, lastWrite, notification, mdTimers, dq,
                   buttonStyle, blurTimers, initialized, ctx, air, scan, focusRun, grid>>

\* lines 1530-1533: the settings object saveSettings builds
savedProject(pp) == pp.value

\* lines 1529-1541: the save button
saveSettings ==
    /\ popup' = [popup EXCEPT !.defaultProject = savedProject(popup)]
    /\ autoDetect' = popup.checked
    /\ UNCHANGED <<variant, activeElement, currentConversationUrl,
                   isProcessing, button, docFocus, attached, content, hs, clearTimers,
                   opened, pendingWrites, lastWrite, notification, mdTimers, dq,
                   buttonStyle, blurTimers, initialized, ctx, air, scan, focusRun, grid>>

\* The popup of a logged-in user on a fresh installation, right after
\* checkLoginStatus (lines 1458-1473) has called fetchProjects and
\* loadSettings (1522-1527) has set the checkbox.
InitPopup ==
    /\ variant \in Variants
    /\ autoDetect \in BOOLEAN
    /\ activeElement = Null
    /\ currentConversationUrl = Null
    /\ isProcessing = FALSE
    /\ button = ButtonIdle
    /\ docFocus = "body"
    /\ attached = Fields
    /\ content = [el \in Elems |-> <<>>]
    /\ hs = [h \in Reqs |-> NoRun]
    /\ clearTimers = <<>>
    /\ opened = <<>>
    /\ pendingWrites = {}
    /\ lastWrite = NoWrite
    /\ notification = NoNotification
    /\ mdTimers = {}
    /\ dq = DqIdle
    /\ buttonStyle = HiddenStyle
    /\ blurTimers = 0
    /\ initialized = [el \in Elems |-> IF el \in Fields THEN Marked ELSE Unmarked]
    /\ ctx = CtxIdle
    /\ air = AirIdle
    /\ scan = ScanSettled
    /\ focusRun = FocusIdle
    /\ grid = GridIdle
    /\ popup = [options |-> <<"loading">>, value |-> "loading", checked |-> autoDetect,
                fetches |-> <<"projects">>, defaultProject |-> Null]

NextPopup ==
    \/ fetchProjects
    \/ \E i \in 1..MaxFetch, rejected \in BOOLEAN, projects \in ProjectLists :
          ProjectsReply(i, rejected, projects)
    \/ \E i \in 1..MaxFetch : SettingsRead(i)
    \/ \E v \in {"default", "p1", "p2"} : UserSelects(v)
    \/ UserToggles
    \/ saveSettings

PopupSpec == InitPopup /\ [][NextPopup]_vars

\* --------------------------------------------- fields of every matched kind
\* A page with the textarea f1, the search input s1 and the role=textbox
\* element r1, all scanned.
InitWidgets ==
    /\ variant \in Variants
    /\ autoDetect \in BOOLEAN
    /\ activeElement = Null
    /\ currentConversationUrl = Null
    /\ isProcessing = FALSE
    /\ button = ButtonIdle
    /\ docFocus = "body"
    /\ attached = {"f1"} \cup Widgets
    /\ content = [el \in AllElems |-> <<>>]
    /\ hs = [h \in Reqs |-> NoRun]
    /\ clearTimers = <<>>
    /\ opened = <<>>
    /\ pendingWrites = {}
    /\ lastWrite = NoWrite
    /\ notification = NoNotification
    /\ mdTimers = {}
    /\ dq = DqIdle
    /\ buttonStyle = HiddenStyle
    /\ blurTimers = 0
    /\ initialized = [el \in AllElems |->
                        IF el \in {"f1"} \cup Widgets THEN Marked ELSE Unmarked]
    /\ ctx = CtxIdle
    /\ air = AirIdle
    /\ scan = ScanSettled
    /\ focusRun = FocusIdle
    /\ popup = PopupClosed
    /\ grid = GridIdle

\* WidgetSpec: one request of the trigger, started from whichever of the
\* three elements has the focus.
NextWidgets ==
    \/ \E el \in {"f1"} \cup Widgets : handleGlobalFocus(el)
    \/ ClickStart(1)
    \/ HandlerStep(1)
    \/ \E w \in pendingWrites : WriteTimer(w)
    \/ ClearTimerFire
    \/ BlurTimer

WidgetSpec == InitWidgets /\ [][NextWidgets]_vars

\* ------------------------------------------- both ways to the backend
\* A page with the two fields and the two Airtable cell editors.
InitBackend ==
    /\ variant \in Variants
    /\ autoDetect \in BOOLEAN
    /\ activeElement = Null
    /\ currentConversationUrl = Null
    /\ isProcessing = FALSE
    /\ button = ButtonIdle
    /\ docFocus = "body"
    /\ attached = Fields \cup Cells
    /\ content = [el \in AllElems |-> <<>>]
    /\ hs = [h \in Reqs |-> NoRun]
    /\ clearTimers = <<>>
    /\ opened = <<>>
    /\ pendingWrites = {}
    /\ lastWrite = NoWrite
    /\ notification = NoNotification
    /\ mdTimers = {}
    /\ dq = DqIdle
    /\ buttonStyle = HiddenStyle
    /\ blurTimers = 0
    /\ initialized = [el \in AllElems |->
                        IF el \in Fields \cup Cells THEN Marked ELSE Unmarked]
    /\ ctx = CtxIdle
    /\ air = AirIdle
    /\ scan = ScanSettled
    /\ focusRun = FocusIdle
    /\ popup = PopupClosed
    /\ grid = GridIdle

\* BackendSpec: one request from the trigger button and one from an
\* Airtable cell button, side by side, with every outcome of the backend.
NextBackend ==
    \/ \E el \in Fields : handleGlobalFocus(el)
    \/ ClickStart(1)
    \/ HandlerStep(1)
    \/ \E el \in Cells \cup {Null}, question \in BOOLEAN :
          AirtableRequest(1, el, question, FALSE)
    \/ AirStorageDone(1)
    \/ \E cancel \in BOOLEAN, text \in ModalTexts : AirModalResolve(1, cancel, text)
    \/ \E outcome \in Outcomes, answer \in AirAnswers : AirResponse(1, outcome, answer)
    \/ \E w \in pendingWrites : WriteTimer(w)
    \/ ClearTimerFire
    \/ BlurTimer

BackendSpec == InitBackend /\ [][NextBackend]_vars

\* ================================================================== claims

\* ---- C10 ----------------------------------------------------------------
\* The six candidates of the Question Inferrer, each stated on its own.
Min(S) == CHOOSE x \in S : \A y \in S : x <= y

candidateLabelFor(e) ==
    IF e.hasId /\ e.labelFor # NoText THEN Trim(e.labelFor) ELSE <<>>

candidatePlaceholder(e) == e.placeholder

candidateAriaLabel(e) == IF e.ariaLabel = NoText THEN <<>> ELSE e.ariaLabel

\* The ancestors the walk looks under: the parent, and above it everything
\* up to, not including, the first body met on the way.
searchedAncestors(e) ==
    {i \in 1..Len(e.ancestors) : \A j \in 2..i : ~e.ancestors[j].isBody}

candidateAncestor(e) ==
    LET found == {i \in searchedAncestors(e) :
                    /\ e.ancestors[i].label # NoText
                    /\ Trim(e.ancestors[i].label) # <<>>}
    IN IF found = {} THEN <<>> ELSE Trim(e.ancestors[Min(found)].label)

candidateSibling(e) ==
    LET found == {i \in 1..Len(e.prevSiblings) : Trim(e.prevSiblings[i]) # <<>>}
    IN IF found = {} THEN <<>> ELSE Trim(e.prevSiblings[Min(found)])

candidateHeading(e) ==
    IF e.editable /\ e.heading # NoText THEN Trim(e.heading) ELSE <<>>

candidates(e) ==
    <<candidateLabelFor(e), candidatePlaceholder(e), candidateAriaLabel(e),
      candidateAncestor(e), candidateSibling(e), candidateHeading(e)>>

firstNonEmpty(cs) ==
    LET filled == {i \in 1..Len(cs) : cs[i] # <<>>}
    IN IF filled = {} THEN <<>> ELSE cs[Min(filled)]

C1_AnswerIntoOriginalField ==
    lastWrite # NoWrite => lastWrite.el = lastWrite.origin

\* ---- C2 -----------------------------------------------------------------
\* C2: while isProcessing is true, no click starts another run of the
\* handler (no second question-composition, no second askClaude message),
\* also when no conversation URL is cached.
C2_ProcessingGatesNewRequests ==
    [][isProcessing => \A h \in Reqs : hs[h].pc = "idle" => hs'[h].pc = "idle"]_vars

\* ---- C3 -----------------------------------------------------------------
InFlight(h) == hs[h].pc \notin {"idle", "done"}

\* C3: every started request ends, on every outcome, with isProcessing
\* false and the processing indicator (class, spinner, title) removed from
\* the button, provided the storage read, the modal and the background
\* message complete.
C3_TriggerReturnsToIdle ==
    \A h \in Reqs :
       InFlight(h) ~> (hs[h].pc = "done" /\ ~isProcessing /\ button = ButtonIdle)

\* A request has ended with a notification and the trigger is idle again.
C3_Witness ==
    \E h \in Reqs :
       /\ hs[h].pc = "done"
       /\ notification.req = h
       /\ ~isProcessing
       /\ button = ButtonIdle

\* ---- C4 -----------------------------------------------------------------
Click == ClickOpen \/ \E h \in Reqs : ClickStart(h)

\* C4: a click made while isProcessing is true and a conversation URL is
\* cached only opens that URL: no run of the handler starts (no message,
\* no modal) and isProcessing, currentConversationUrl and the active field
\* stay as they are.
C4_ClickOnlyOpensConversation ==
    [][(isProcessing /\ currentConversationUrl # Null /\ Click) =>
         /\ opened' = Append(opened, currentConversationUrl)
         /\ UNCHANGED <<hs, attached, isProcessing, currentConversationUrl,
                        activeElement, button, content, pendingWrites,
                        notification, clearTimers, focusRun, popup, grid>>]_vars

\* The shortcut has been taken during a request.
C4_Witness ==
    /\ opened # <<>>
    /\ isProcessing
    /\ currentConversationUrl = opened[Len(opened)]

\* ---- C5 -----------------------------------------------------------------
\* C5: a cached conversation URL is cleared only by the timer of the
\* request that cached it, never by a timer left by an earlier click.
C5_UrlClearedByOwnTimerOnly ==
    [][(ClearTimerFire /\ currentConversationUrl # Null) =>
         currentConversationUrl = UrlOf(Head(clearTimers))]_vars

\* ---- C6 -----------------------------------------------------------------
\* C6: an answer is never written into a field that is not in the document
\* at the moment of the write.
C6_NoWriteIntoRemovedField ==
    lastWrite # NoWrite => lastWrite.inDoc

\* ---- C7 -----------------------------------------------------------------
FailedOutcomes == {"rejected", "noanswer"}

\* C7: when the backend call of a request fails (message rejected, or a
\* response without an answer), a notification reporting the failure is
\* shown, the request changes no field and schedules no write, and the
\* trigger is idle again.
C7_FailureNotifiesAndLeavesFields ==
    [][\A h \in Reqs, outcome \in FailedOutcomes :
         Response(h, outcome) =>
           /\ notification'.req = h
           /\ notification'.text \in {"error", "noanswer"}
           /\ content' = content
           /\ pendingWrites' = pendingWrites
           /\ lastWrite' = lastWrite
           /\ hs'[h].pc = "done"
           /\ ~isProcessing'
           /\ button' = ButtonIdle]_vars

\* A request has ended with a failure notification.
C7_Witness ==
    /\ notification.text \in {"error", "noanswer"}
    /\ notification.req \in Reqs
    /\ hs[notification.req].pc = "done"
    /\ ~isProcessing

\* ---- C8 -----------------------------------------------------------------
\* C8: when the modal is cancelled or submitted with empty or blank text,
\* the request ends there: nothing is captured or sent, no field changes,
\* no notification is shown, isProcessing is false and
\* currentConversationUrl is null.
C8_EmptyQuestionAborts ==
    [][\A h \in Reqs, cancel \in BOOLEAN, text \in ModalTexts :
         (ModalResolve(h, cancel, text) /\ (cancel \/ Trim(text) = <<>>)) =>
           /\ hs'[h].pc = "done"
           /\ \A g \in Reqs : hs'[g].pc \in {"capture", "waiting"} => hs'[g] = hs[g]
           /\ content' = content
           /\ pendingWrites' = pendingWrites
           /\ lastWrite' = lastWrite
           /\ notification' = notification
           /\ ~isProcessing'
           /\ currentConversationUrl' = Null]_vars

\* A request has ended without any notification: its modal was cancelled or
\* submitted blank.
C8_Witness ==
    /\ hs[1].pc = "done"
    /\ notification = NoNotification
    /\ lastWrite = NoWrite
    /\ ~isProcessing
    /\ currentConversationUrl = Null

\* ---- C9 -----------------------------------------------------------------
\* C9: when the settings arrive, the modal opens if and only if auto-detect
\* is off or the detected question is empty; otherwise no modal opens and
\* the question that goes to the backend is the detected string.
C9_ModalIffNothingDetected ==
    [][\A h \in Reqs :
         /\ StorageDone(h) =>
              LET detected == detectFormQuestion(domOf(activeElement)) IN
              /\ (hs'[h].pc = "modal" /\ TaOf(h) \in attached')
                   <=> (~autoDetect \/ detected = <<>>)
              /\ (autoDetect /\ detected # <<>>) =>
                   /\ attached' = attached
                   /\ hs'[h].pc \in {"capture", "waiting"}
                   /\ hs'[h].question = detected
         /\ CaptureDone(h) =>
              /\ hs'[h].pc = "waiting"
              /\ hs'[h].question = hs[h].question]_vars

\* A detected question is on its way to the backend and no modal is open.
C9_Witness ==
    /\ autoDetect
    /\ hs[1].pc = "waiting"
    /\ hs[1].question = <<SP, "P">>
    /\ attached \cap Tas = {}

\* ---- C11 ----------------------------------------------------------------
\* A matching element gains the focus in this step.
GainsFocus == docFocus' # docFocus /\ docFocus' \in Elems

\* C11: an element of the accepted selector list that gains focus becomes
\* the active field and the trigger button is displayed, and the button
\* stays displayed for as long as that element keeps the focus, also when
\* it took the focus from another field less than the blur delay ago.
C11_ButtonShownWhileFocused ==
    /\ [](docFocus \in Elems => buttonStyle.display = "flex")
    /\ [][GainsFocus =>
            /\ activeElement' = docFocus'
            /\ buttonStyle'.display = "flex"]_vars

\* ---- C12 ----------------------------------------------------------------
\* C12: when the blur delay has elapsed the button is hidden, unless the
\* trigger button itself holds the focus at that moment: then it stays as
\* it is.  Nothing else hides the button.
C12_BlurHidesUnlessOnButton ==
    [][/\ BlurTimer =>
            IF docFocus = "button" THEN buttonStyle' = buttonStyle
            ELSE buttonStyle'.display = "none"
       /\ (buttonStyle.display = "flex" /\ buttonStyle'.display = "none") => BlurTimer]_vars

\* The focus went from a field to the trigger button, the blur timer has
\* fired, and the button is still displayed.
C12_Witness ==
    /\ variant = "simple"
    /\ \A h \in Reqs : hs[h].pc = "idle"
    /\ attached = Fields
    /\ docFocus = "button"
    /\ blurTimers = 0
    /\ buttonStyle.display = "flex"

\* ---- C19 ----------------------------------------------------------------
\* C19: after any sequence of scans (initial, retry, observer scans of the
\* page and of the iframe) an element carries the mark exactly when it has
\* one pair of focus/blur listeners, every element of the page's document
\* has been given its pair, and a scan never gives listeners to an element
\* that already carries the mark.
C19_ListenersAttachedOnce ==
    /\ [](\A el \in DOMAIN initialized :
            /\ initialized[el].listeners = IF initialized[el].mark THEN 1 ELSE 0
            /\ (el \in attached \cap (DocEls \cup Fields)) => initialized[el].mark)
    /\ [][\A el \in DOMAIN initialized :
            initialized[el].mark => initialized'[el].listeners = initialized[el].listeners]_vars

\* The retry and two observers of the iframe have scanned elements that
\* were marked before, and each still has one pair of listeners.
C19_Witness ==
    /\ ~scan.retryPending
    /\ scan.frameObservers = 2
    /\ attached = ScanEls
    /\ \A el \in ScanEls : initialized[el] = Marked

\* ---- C20 ----------------------------------------------------------------
\* C20: whenever no handler is running, the trigger button's position is the
\* one computed from the current active field, whichever signal made the
\* field active.
C20_ButtonFollowsActiveField ==
    activeElement # Null => buttonStyle.at = activeElement

\* ---- C13 ----------------------------------------------------------------
SetBeforeInput(events) ==
    \E i, j \in DOMAIN events :
        /\ i < j
        /\ events[i] = "set"
        /\ events[j] = "input"
        /\ \A k \in 1..(i - 1) : events[k] # "input"

\* C13: once an answer A was inserted into a textarea, a text input or a
\* contenteditable region, the field's value (innerHTML for the region) is
\* exactly A, and the input event was dispatched after the content was set.
C13_InsertedExactly ==
    (lastWrite.el # Null /\ kindOf(lastWrite.el) \in {"textarea", "text", "contenteditable"})
        => /\ content[lastWrite.el] = lastWrite.text
           /\ SetBeforeInput(lastWrite.events)

Body(text) == SelectSeq(text, LAMBDA run : run.s # "header")

\* The first maxPageContentLength characters of string s, then the marker.
Cut(s) == <<[s |-> s, n |-> maxPageContentLength], [s |-> "marker", n |-> MarkerLen]>>

\* C15: cleaned page content (and service markdown) longer than 20,000
\* characters comes back as exactly its first 20,000 characters followed by
\* the truncation marker; content of at most 20,000 characters comes back
\* unchanged, without the marker.
C15_TruncatedAtBudget ==
    /\ (ctx.result.from = "direct" /\ ~ctx.throws) =>
          Body(ctx.result.textContext) =
            IF ctx.pageLen > maxPageContentLength THEN Cut("page")
            ELSE Run("page", ctx.pageLen)
    /\ ctx.result.from = "jina" =>
          ctx.result.textContext =
            IF ctx.replyLen > maxPageContentLength THEN Cut("markdown")
            ELSE Run("markdown", ctx.replyLen)

\* Page content of 20,001 characters was scraped and cut.
C15_Witness ==
    /\ ctx.phase = "done"
    /\ ctx.result.from = "direct"
    /\ ctx.pageLen = maxPageContentLength + 1
    /\ Length(Body(ctx.result.textContext)) = maxPageContentLength + MarkerLen

\* ---- C16 ----------------------------------------------------------------
ServiceCalled == \E m \in ctx.sent : m.data = "url"

\* C16: the readability handler calls the service only for a URL without
\* private marker; it returns the service output when the call succeeds
\* with at least 100 characters and the scraped page otherwise.
C16_ServiceOutputOrFallback ==
    (ctx.handler = "readability" /\ ctx.phase \in {"done", "returned"}) =>
        /\ ServiceCalled <=> \A i \in DOMAIN ctx.url : indicatorsIn(ctx.url[i]) = {}
        /\ ctx.result.from = "jina" <=>
              (ServiceCalled /\ ctx.reply = "markdown" /\ ctx.replyLen >= ThinLength)
        /\ ctx.result.from = "direct" <=>
              (~ServiceCalled \/ ctx.reply # "markdown" \/ ctx.replyLen < ThinLength)

\* ---- C17 ----------------------------------------------------------------
\* C17: page data leaves the content scripts only in messages to the
\* background script (askClaude, captureScreenshot), which talks to Claude.ai.
C17_DataOnlyToClaude ==
    \A m \in ctx.sent : m.to = "background"

\* ---- C18 ----------------------------------------------------------------
\* C18: capturePageContext never rejects; after a failed, rejected or empty
\* screenshot reply the context has screenshotData null and a non-empty
\* text; and when the call returns, the askClaude message leaves.
C18_ScreenshotBestEffort ==
    /\ [](ctx.phase \in {"done", "returned"} =>
            /\ ~ctx.result.rejected
            /\ (ctx.handler = "screenshot" /\ ctx.reply \in {"lasterror", "nodata"}) =>
                  /\ ctx.result.screenshotData = Null
                  /\ Length(ctx.result.textContext) > 0)
    /\ [][CaptureReturn =>
            /\ hs'[1].pc = "waiting"
            /\ [to |-> "background", data |-> "askClaude"] \in ctx'.sent]_vars

\* The screenshot message failed and the request went on to the backend.
C18_Witness ==
    /\ ctx.phase = "returned"
    /\ ctx.handler = "screenshot"
    /\ ctx.reply = "lasterror"
    /\ ctx.result.screenshotData = Null
    /\ Length(ctx.result.textContext) > 0
    /\ hs[1].pc = "waiting"

\* ---- C28 ----------------------------------------------------------------
\* C28: the active field is never an element of the extension's own UI:
\* the textarea of the question modal never becomes activeElement.
C28_ActiveFieldNeverOwnUI ==
    activeElement \notin Tas

\* ---- C29 ----------------------------------------------------------------
\* C29: a URL opened by a click during processing is the conversation URL
\* of a request that is in flight at that moment, never the cached URL of a
\* request that has already returned.
C29_OpenedUrlOfRequestInFlight ==
    [][ClickOpen => \E h \in Reqs : InFlight(h) /\ currentConversationUrl = UrlOf(h)]_vars

\* ---- C23 ----------------------------------------------------------------
\* C23: the ancestor walk of detectFormQuestion looks for a label or heading
\* under no ancestor above document.body, wherever the field sits in the
\* document.
C23_WalkBoundedAtBody ==
    dq.phase = "result" =>
        \A i \in dq.searched : \A j \in 1..(i - 1) : ~dq.element.ancestors[j].isBody

\* ---- C21 ----------------------------------------------------------------
ModalSubmitted(h) == ModalClick(h, "submit") \/ ModalKeydown(h, "Enter", FALSE)

\* C21: the question modal is in the document exactly while its promise is
\* pending; Submit and Enter without Shift close it and resolve with the
\* trimmed text, Cancel closes it and resolves with the empty string (the
\* request ends), Enter with Shift neither resolves nor closes it, and
\* nothing else resolves it.
C21_ModalResolvesOnce ==
    /\ [](\A h \in Reqs : hs[h].pc = "modal" <=> TaOf(h) \in attached)
    /\ [][\A h \in Reqs :
            /\ ModalSubmitted(h) =>
                 /\ TaOf(h) \notin attached'
                 /\ IF Trim(content[TaOf(h)]) = <<>> THEN hs'[h].pc = "done"
                    ELSE /\ hs'[h].pc \in {"capture", "waiting"}
                         /\ hs'[h].question = Trim(content[TaOf(h)])
            /\ ModalClick(h, "cancel") =>
                 /\ TaOf(h) \notin attached'
                 /\ hs'[h].pc = "done"
            /\ ModalKeydown(h, "Enter", TRUE) =>
                 /\ hs' = hs
                 /\ attached' = attached
            /\ (hs[h].pc = "modal" /\ hs'[h].pc # "modal") =>
                 (ModalSubmitted(h) \/ ModalClick(h, "cancel"))]_vars

\* The user typed a question, pressed Shift+Enter (a line break, the modal
\* stayed), then submitted: the modal is gone and the trimmed text went on.
C21_Witness ==
    /\ content[TaOf(1)] = <<SP, "q", LF>>
    /\ TaOf(1) \notin attached
    /\ hs[1].pc \in {"capture", "waiting"}
    /\ hs[1].question = <<"q">>

\* ---- C22 ----------------------------------------------------------------
\* The letters of a line are found in the cleaned content.
LineKept(line) ==
    \E j \in DOMAIN ctx.cleaned : ctx.cleaned[j].c = lineTrim(line)[1].c

\* C22: of the lines handed to cleanPageContent, every line whose trimmed
\* length is 10 or more is kept and every non-empty line whose trimmed
\* length is below 10 is removed.
C22_ShortLinesDropped ==
    ctx.phase = "cleaned" =>
        \A i \in DOMAIN splitLines(ctx.raw) :
            LET line == splitLines(ctx.raw)[i] IN
            lineTrim(line) # <<>> =>
                (LineKept(line) <=> Length(lineTrim(line)) >= ShortLine)

\* ---- C24 ----------------------------------------------------------------
Answered(pc) == pc \in {"insertwait", "done"}

\* C24: a request of the trigger or of an Airtable cell sends its askClaude
\* message once: whatever the backend delivers (rejection, no answer,
\* answer), the request leaves the wait for the response for good and never
\* comes back to sending.
C24_MessageSentOnce ==
    [][/\ \A h \in Reqs :
            /\ (\E outcome \in Outcomes : Response(h, outcome)) => Answered(hs'[h].pc)
            /\ Answered(hs[h].pc) => Answered(hs'[h].pc)
            /\ (hs[h].pc # "waiting" /\ hs'[h].pc = "waiting")
                   => hs[h].pc \in {"storage", "modal", "capture"}
       /\ \A r \in AirReqs :
            /\ (\E outcome \in Outcomes, answer \in AirAnswers :
                   AirResponse(r, outcome, answer)) => air'[r].pc = "done"
            /\ air[r].pc = "done" => air'[r].pc = "done"
            /\ (air[r].pc # "waiting" /\ air'[r].pc = "waiting")
                   => air[r].pc \in {"storage", "modal"}]_vars

\* Both requests were sent and both failed; neither is waiting again.
C24_Witness ==
    /\ hs[1].pc = "done"
    /\ air[1].pc = "done"
    /\ air[1].answer = <<>>
    /\ air[1].question
    /\ notification.text \in {"error", "noanswer"}
    /\ lastWrite = NoWrite
    /\ clearTimers # <<>>

\* ---- C25 ----------------------------------------------------------------
\* C25: once init() has run on a page with an iframe the script cannot look
\* into, the document-level listeners are in place, the same-origin iframe
\* is observed, and every form element in the page's document or in the
\* same-origin iframe has its listeners (now and after every later scan).
C25_BlockedFrameSkipped ==
    scan.loaded =>
        /\ scan.listening
        /\ scan.frameObservers >= 1
        /\ \A el \in attached : initialized[el] = Marked

\* The inaccessible iframe throws, the one behind it has a marked element.
C25_Witness ==
    /\ scan.loaded
    /\ scan.blocked = "throws"
    /\ scan.listening
    /\ ~scan.retryPending
    /\ "i1" \in attached
    /\ "d1" \in attached
    /\ initialized["i1"] = Marked

\* ---- C26 ----------------------------------------------------------------
\* C26: when the timer of a press on f1 fires and another field has become
\* the active one since the press (by a focus or a click signal), the
\* active field stays what that signal made it.
C26_TimerKeepsLaterSignal ==
    [][(MousedownTimer("f1") /\ activeElement \in Fields \ {"f1"})
          => activeElement' = activeElement]_vars

\* ---- C27 ----------------------------------------------------------------
\* C27: the handling of one focus event ends by itself: the re-entry of
\* handleElementFocus through its synthetic focus event stops before the
\* call stack is used up.
C27_FocusHandlingBounded == ~focusRun.overflow

\* ---- C30 ----------------------------------------------------------------
\* C30: when the success notification of a request is up and its delayed
\* write was made on an element of the page, that element holds the
\* request's answer, whatever kind of matched element it is.
C30_SuccessMeansWritten ==
    (/\ notification.text = "success"
     /\ lastWrite.req = notification.req
     /\ lastWrite.el \in attached)
        => content[lastWrite.el] = storedForm(lastWrite.el, AnswerOf(notification.req))

\* ---- C31 ----------------------------------------------------------------
\* C31: while the askClaude message of a request of the trigger is sent and
\* its response not yet handled, isProcessing is true.
C31_ProcessingWhileOutstanding ==
    (\E h \in Reqs : hs[h].pc = "waiting") => isProcessing

\* ---- C32 ----------------------------------------------------------------
\* C32: the document holds the textarea of at most one question modal,
\* whichever requests of the trigger and of the Airtable buttons are under
\* way.
C32_OneModalAtATime ==
    Cardinality(attached \cap (Tas \cup AirTas)) <= 1

\* ---- C33 ----------------------------------------------------------------
\* C33: the defaultProject the popup has stored is 'default' or the id of a
\* fetched project, whenever the save button was pressed.
C33_StoredProjectIsReal ==
    popup.defaultProject \in {Null, "default", "p1", "p2"}

\* ---- C34 ----------------------------------------------------------------
\* C34: the part of the conversation title after 'Form: ' has at most 50
\* characters, for every question.
C34_TitleBodyAtMostFifty ==
    ctx.phase = "titled" => Length(ctx.title) <= TitleMax

\* ---- C35 ----------------------------------------------------------------
\* C35: no cell of the page has more than one injected button inside it.
C35_OneButtonPerCell ==
    \A cell \in grid.present : buttonsIn(grid, cell) <= 1

====
